---- MODULE Spec2Model ----
(***************************************************************************)
(* A model of the Van der Waals simulation engine: the prototype builder   *)
(* and its compile step, the ring buffer and the pressure sampler, the     *)
(* boundary, the grid, the leapfrog step and the frame driver.             *)
(*                                                                         *)
(* Numbers.  The program computes in f32.  The model computes in exact     *)
(* fixed point on integers:                                                *)
(*   lengths     in units of 0.05         (1.0 is 20, R0 = 0.15 is 3)      *)
(*   times       in milliseconds          (dt = 0.001 is 1, 1 s is 1000)   *)
(*   velocities  in length units per second                                *)
(*   forces, accelerations*mass           in the program's own units       *)
(*   pressure samples                     as plain integers                *)
(* A quotient that is not an integer is rounded toward zero (DivT), which  *)
(* is sign-symmetric like the rounding of the floating-point division it   *)
(* stands for.  Of the values that are not numbers the model has only the  *)
(* NaN of 0/0 in the pressure average; the infinities are not values of    *)
(* the model.                                                              *)
(***************************************************************************)
EXTENDS Integers, Sequences, FiniteSets, TLC

VARIABLES
    proto,           \* the SimulationPrototype under construction
    compile_result,  \* what the last call of compile returned (NoResult: none yet)
    pressure,        \* a Pressure sampler: [data, capacity, sum_cache, dt]
    pushed,          \* ghost: every value handed to push_sample, oldest first
    last_push,       \* ghost: what the last RingBuffer::push returned
    sim,             \* the SimulationState resource
    pc,              \* where the running step() is: "Idle" when none runs
    done,            \* the items of the current parallel loop already processed
    locals,          \* the local variables of the running step()
    start,           \* ghost: the SimulationState when the last step() was called
    trace,           \* ghost: the phases the last step() has entered, in order
    frame,           \* the frame driver: loop position and ghost counters
    ctl              \* ghost: what the pressure controller did last

compile_vars == <<proto, compile_result>>

pressure_vars == <<pressure, pushed, last_push>>

step_vars == <<sim, pc, done, locals, start, trace>>

vars == <<proto, compile_result, pressure, pushed, last_push,
          sim, pc, done, locals, start, trace, frame, ctl>>

----------------------------------------------------------------------------
(* Arithmetic helpers *)

Abs(a) == IF a >= 0 THEN a ELSE -a

\* Integer square root by Newton's iteration: the model's f32 sqrt.
RECURSIVE ISqrtIter(_, _)
ISqrtIter(n, x) ==
    LET y == (x + n \div x) \div 2
    IN  IF y >= x THEN x ELSE ISqrtIter(n, y)

ISqrt(n) == IF n <= 0 THEN 0 ELSE ISqrtIter(n, n)

Max2(a, b) == IF a >= b THEN a ELSE b

Min2(a, b) == IF a <= b THEN a ELSE b

\* Division rounded toward zero: the model's stand-in for a float quotient.
DivT(a, b) ==
    IF b > 0
    THEN (IF a >= 0 THEN a \div b ELSE -((-a) \div b))
    ELSE (IF a >= 0 THEN -(a \div (-b)) ELSE ((-a) \div (-b)))

RECURSIVE SumSeq(_)
SumSeq(s) == IF s = <<>> THEN 0 ELSE Head(s) + SumSeq(Tail(s))

\* Vec3 as a triple
Vec3(x, y, z) == <<x, y, z>>

VZero == <<0, 0, 0>>

VAdd(a, b) == <<a[1] + b[1], a[2] + b[2], a[3] + b[3]>>

VSub(a, b) == <<a[1] - b[1], a[2] - b[2], a[3] - b[3]>>

VScale(k, a) == <<k * a[1], k * a[2], k * a[3]>>

VDivT(a, k) == <<DivT(a[1], k), DivT(a[2], k), DivT(a[3], k)>>

VMax(a, b) == <<Max2(a[1], b[1]), Max2(a[2], b[2]), Max2(a[3], b[3])>>

VMin(a, b) == <<Min2(a[1], b[1]), Min2(a[2], b[2]), Min2(a[3], b[3])>>

length_squared(a) == a[1] * a[1] + a[2] * a[2] + a[3] * a[3]

length(a) == ISqrt(length_squared(a))

----------------------------------------------------------------------------
(* Boundary (src/state/sim_space.rs) *)

\* const MIN_LEN: f32 = 2.0, in length units of 0.05
MIN_LEN == 40

\* const DEFLECT_STR: f32 = 10000.0, force per 1.0 of length
DEFLECT_STR == 10000

\* Boundary::new: a 5.0 x 5.0 x 5.0 box
Boundary_new == [x |-> 100, y |-> 100, z |-> 100]

hi_corner(b) == <<b.x, b.y, b.z>>

lo_corner(b) == VZero

is_valid(b) == b.x >= MIN_LEN /\ b.y >= MIN_LEN /\ b.z >= MIN_LEN

\* A mutant of bound_check: the upper walls are not looked at.
bound_check_lower_only(b, pos) == VMax(VSub(lo_corner(b), pos), VZero)

\* The directions in which pos is out of bounds, pointing into the box.
bound_check(b, pos) ==
    LET lower_bound_check == VMax(VSub(lo_corner(b), pos), VZero)
        upper_bound_check == VMin(VSub(hi_corner(b), pos), VZero)
    IN  VAdd(lower_bound_check, upper_bound_check)

contains_position(b, pos) == length_squared(bound_check(b, pos)) = 0

get_surface_area(b) == (b.x * b.y + b.y * b.z + b.z * b.x) * 2

----------------------------------------------------------------------------
(* RingBuffer (src/ring_buffer.rs) and Pressure (src/state.rs) *)

\* RingBuffer::with_capacity
RingBuffer_with_capacity(capacity) == [data |-> <<>>, capacity |-> capacity]

\* Option<T>
None == [some |-> FALSE]

Some(v) == [some |-> TRUE, val |-> v]

unwrap_or(o, d) == IF o.some THEN o.val ELSE d

\* RingBuffer::push: the buffer after the push, and the returned Option.
\* push_back first, then pop_front when the length EQUALS the capacity.
RingBuffer_push(rb, val) ==
    LET pushed_back == Append(rb.data, val)
    IN  IF Len(pushed_back) = rb.capacity
        THEN [rb  |-> [rb EXCEPT !.data = Tail(pushed_back)],
              ret |-> Some(Head(pushed_back))]
        ELSE [rb  |-> [rb EXCEPT !.data = pushed_back],
              ret |-> None]

RingBuffer_len(rb) == Len(rb.data)

\* RingBuffer::peak: the newest value
RingBuffer_peak(rb) == IF rb.data = <<>> THEN None ELSE Some(rb.data[Len(rb.data)])

\* Pressure::new
Pressure_new(capacity, dt) ==
    [data |-> RingBuffer_with_capacity(capacity), sum_cache |-> 0, dt |-> dt]

\* A mutant of push_sample: the evicted value is not taken off the sum.
Pressure_push_sample_keeps_evicted(p, value) ==
    LET r == RingBuffer_push(p.data, value)
    IN  [p EXCEPT !.data = r.rb, !.sum_cache = p.sum_cache + value]

\* Pressure::push_sample
Pressure_push_sample(p, value) ==
    LET r == RingBuffer_push(p.data, value)
    IN  [p EXCEPT !.data = r.rb,
                  !.sum_cache = (p.sum_cache - unwrap_or(r.ret, 0)) + value]

\* An f32 quotient kept exact: num/den in lowest terms with den > 0; 0/0 is NaN.
NaN == [nan |-> TRUE]

RECURSIVE GCD(_, _)
GCD(a, b) == IF b = 0 THEN a ELSE GCD(b, a % b)

Rat(n, d) ==
    LET g == GCD(Abs(n), Abs(d))
        sgn == IF d < 0 THEN -1 ELSE 1
    IN  [nan |-> FALSE, num |-> sgn * (n \div g), den |-> sgn * (d \div g)]

RSub(a, b) ==
    LET l == (a.den \div GCD(a.den, b.den)) * b.den
    IN  Rat(a.num * (l \div a.den) - b.num * (l \div b.den), l)

RScale(k, a) == Rat(k * a.num, a.den)

RLt(a, b) == a.num * b.den < b.num * a.den

RLe(a, b) == a.num * b.den <= b.num * a.den

RNeg(a) == Rat(-a.num, a.den)

\* f32::clamp(self, lo, hi)
RClamp(a, lo, hi) == IF RLt(a, lo) THEN lo ELSE IF RLt(hi, a) THEN hi ELSE a

\* Pressure::get_pressure: sum_cache / data.len() / dt
Pressure_get_pressure(p) ==
    IF RingBuffer_len(p.data) = 0
    THEN NaN
    ELSE Rat(p.sum_cache, RingBuffer_len(p.data) * p.dt)

----------------------------------------------------------------------------
(* Particle, Grid, SimulationState (src/state.rs) *)

\* A particle: mass, position, velocity, last neighbor count.
Particle_new(mass, pos, vel) ==
    [mass |-> mass, pos |-> pos, vel |-> vel, neighbors |-> 0]

get_pos(particle) == particle.pos

\* Grid::new
Grid_new(unit_size, reach) == [reach |-> reach, unit_size |-> unit_size]

\* const PRESSURE_SAMPLING_PERIOD: f32 = 5.0, in milliseconds
PRESSURE_SAMPLING_PERIOD == 5000

\* History::with_capacity(1000)
HISTORY_CAPACITY == 1000

History_with_capacity(capacity) ==
    [energy   |-> RingBuffer_with_capacity(capacity),
     pressure |-> RingBuffer_with_capacity(capacity)]

\* VDWSimulation::new: the engine state a successful compile returns.
VDWSimulation_new(particles, bound, grid, dt, steps_per_frame, ext_accel) ==
    [particles |-> particles,
     bound |-> bound,
     grid |-> grid,
     bound_rate |-> Rat(0, 1),
     target_temp |-> 0,
     inject_rate |-> 0,
     heat_injection_ammount |-> 0,
     pressure_pinned |-> [previous_state |-> FALSE, is_pinned |-> FALSE,
                          at_value |-> Rat(1, 2)],
     dt |-> dt,
     steps_per_frame |-> steps_per_frame,
     ext_accel |-> ext_accel,
     steps |-> 0,
     energy |-> [kinetic |-> 0, potential |-> 0],
     pressure |-> Pressure_new(
                     (PRESSURE_SAMPLING_PERIOD \div dt) \div steps_per_frame,
                     dt * steps_per_frame),
     impulse_accumultor |-> 0,
     history |-> History_with_capacity(HISTORY_CAPACITY)]

----------------------------------------------------------------------------
(* The pair law (src/physics.rs) *)

\* const R0: f64 = 0.15, in length units of 0.05
R0 == 3

Pow3(a) == a * a * a

Pow6(a) == Pow3(a) * Pow3(a)

Pow7(a) == Pow6(a) * a

Pow13(a) == Pow6(a) * Pow6(a) * a

\* A mutant of ForceComponent: the quotient rounded down instead of toward 0.
ForceComponent_floor(r2, d) ==
    (24 * Pow7(R0) * (2 * Pow6(R0) - Pow3(r2)) * d) \div Pow7(r2)

\* 24.0 * ((2.0 / r_unit14) - (1.0 / r_unit8)) * r_unit for one component d of
\* r, with r_unit = r / R0 and r2 = |r|^2:
\*     24 * R0^7 * (2 * R0^6 - r2^3) * d / r2^7
ForceComponent(r2, d) ==
    DivT(24 * Pow7(R0) * (2 * Pow6(R0) - Pow3(r2)) * d, Pow7(r2))

\* 4.0 * R0 * (1.0 / ru12) - (1.0 / ru6) at squared separation r2, in units
\* of 0.01 (R0 is the plain number 0.15 = R0/20 in the first factor):
\*     (R0^13 - 5 * R0^6 * r2^3) / (5 * r2^6)
RawPotential(r2) ==
    DivT(100 * (Pow13(R0) - 5 * Pow6(R0) * Pow3(r2)), 5 * Pow6(r2))

\* A mutant of vdw_at: the shifted potential is not halved.
vdw_at_whole_potential(r, r_norm_sqr, range) ==
    IF r_norm_sqr > range * range
    THEN [force |-> VZero, potential |-> 0]
    ELSE [force |-> <<ForceComponent(r_norm_sqr, r[1]),
                      ForceComponent(r_norm_sqr, r[2]),
                      ForceComponent(r_norm_sqr, r[3])>>,
          potential |-> RawPotential(r_norm_sqr) - RawPotential(range * range)]

\* A mutant of vdw_at: the potential is not shifted.
vdw_at_unshifted(r, r_norm_sqr, range) ==
    IF r_norm_sqr > range * range
    THEN [force |-> VZero, potential |-> 0]
    ELSE [force |-> <<ForceComponent(r_norm_sqr, r[1]),
                      ForceComponent(r_norm_sqr, r[2]),
                      ForceComponent(r_norm_sqr, r[3])>>,
          potential |-> DivT(RawPotential(r_norm_sqr), 2)]

\* vdw_interaction from r and |r|^2 on: the cutoff, the force and the
\* potential shifted by its value at the cutoff
vdw_at(r, r_norm_sqr, range) ==
    IF r_norm_sqr > range * range
    THEN [force |-> VZero, potential |-> 0]
    ELSE [force |-> <<ForceComponent(r_norm_sqr, r[1]),
                      ForceComponent(r_norm_sqr, r[2]),
                      ForceComponent(r_norm_sqr, r[3])>>,
          potential |-> DivT(RawPotential(r_norm_sqr) - RawPotential(range * range), 2)]

\* let r_norm_sqr = r.length_squared()
vdw_of_separation(r, range) == vdw_at(r, length_squared(r), range)

\* vdw_interaction: force and potential on the target
vdw_interaction(pos_targ, pos_other, range) ==
    vdw_of_separation(VSub(pos_targ, pos_other), range)

\* the neighbor flag of the three-valued interaction (src/state/physics.rs):
\* 1 when the separation is below 2 * R0, whatever the range is
determine_neighbor(pos_targ, pos_other) ==
    LET r == VSub(pos_targ, pos_other)
        neighbor_threshold == 4 * R0 * R0
    IN  IF length_squared(r) < neighbor_threshold THEN 1 ELSE 0

\* the tuple (force, potential, neighbor)
with_neighbor(fp, neighbor) ==
    [force |-> fp.force, potential |-> fp.potential, neighbor |-> neighbor]

\* the (force, potential, neighbor) the grid gets for one pair
pair_interaction(pos_targ, pos_other, range) ==
    with_neighbor(vdw_interaction(pos_targ, pos_other, range),
                  determine_neighbor(pos_targ, pos_other))

----------------------------------------------------------------------------
(* Grid (src/state/sim_space.rs).  Particle ids are 1..N here, 0..N-1 in   *)
(* the program.                                                            *)

\* A mutant of find_grid_location: the quotient is cut toward zero.
find_grid_location_toward_zero(g, p) ==
    <<DivT(p[1], g.unit_size), DivT(p[2], g.unit_size), DivT(p[3], g.unit_size)>>

\* Grid::find_grid_location: floor(p / unit_size) per axis
find_grid_location(g, p) ==
    <<p[1] \div g.unit_size, p[2] \div g.unit_size, p[3] \div g.unit_size>>

RECURSIVE MinOf(_)
MinOf(S) ==
    LET x == CHOOSE y \in S : TRUE
    IN  IF S = {x} THEN x ELSE Min2(x, MinOf(S \ {x}))

RECURSIVE MaxOf(_)
MaxOf(S) ==
    LET x == CHOOSE y \in S : TRUE
    IN  IF S = {x} THEN x ELSE Max2(x, MaxOf(S \ {x}))

\* make_grid, first part: the locations re-based so that the smallest index
\* on each axis is 0.
translate_locations(grid_locations) ==
    LET n == Len(grid_locations)
        amin(a) == MinOf({grid_locations[i][a] : i \in 1..n})
    IN  [i \in 1..n |->
            <<grid_locations[i][1] - amin(1),
              grid_locations[i][2] - amin(2),
              grid_locations[i][3] - amin(3)>>]

\* make_grid, second part: Array3::from_elem((xmax+1, ymax+1, zmax+1), vec![]).
\* Only the cells some particle lies in are kept; every other cell of the
\* array is the empty list (see grid_cell).
grid_from_elem(locations) ==
    LET n == Len(locations)
        amax(a) == IF n = 0 THEN 0 ELSE MaxOf({locations[i][a] : i \in 1..n})
    IN  [dim   |-> <<amax(1) + 1, amax(2) + 1, amax(3) + 1>>,
         cells |-> [c \in {locations[i] : i \in 1..n} |-> <<>>]]

\* grid[[x, y, z]].push(i)
grid_push(grid, c, i) == [grid EXCEPT !.cells[c] = Append(@, i)]

\* grid[[x, y, z]]
grid_cell(grid, c) == IF c \in DOMAIN grid.cells THEN grid.cells[c] ELSE <<>>

RECURSIVE grid_fill(_, _, _)
grid_fill(grid, locations, i) ==
    IF i > Len(locations)
    THEN grid
    ELSE grid_fill(grid_push(grid, locations[i], i), locations, i + 1)

\* make_grid, third part: the array filled in the order of the particle ids,
\* returned with the locations
fill_locations(locations) ==
    [grid |-> grid_fill(grid_from_elem(locations), locations, 1),
     locations |-> locations]

\* Grid::make_grid
make_grid(g, ps) ==
    fill_locations(
        translate_locations([i \in 1..Len(ps) |-> find_grid_location(g, ps[i].pos)]))

\* A mutant of saturating_sub: one less is taken off.
saturating_sub_one_less(a, b) == IF a >= b - 1 THEN a - (b - 1) ELSE 0

\* A mutant of saturating_sub: the difference is not held at 0.
saturating_sub_below_zero(a, b) == a - b

\* usize::saturating_sub
saturating_sub(a, b) == IF a >= b THEN a - b ELSE 0

\* A mutant of RangeBelow: lo..hi, the upper end left out.
RangeBelow_exclusive(lo, hi, dim) ==
    LET top == Min2(hi - 1, dim - 1)
    IN  [k \in 1..Max2(top - lo + 1, 0) |-> lo + k - 1]

\* (lo ..= hi).filter(|&x| x < dim) as a list
RangeBelow(lo, hi, dim) ==
    LET top == Min2(hi, dim - 1)
    IN  [k \in 1..Max2(top - lo + 1, 0) |-> lo + k - 1]

\* iproduct!(xs, ys, zs), x slowest
iproduct(xs, ys, zs) ==
    [k \in 1..(Len(xs) * Len(ys) * Len(zs)) |->
        <<xs[((k - 1) \div (Len(ys) * Len(zs))) + 1],
          ys[(((k - 1) \div Len(zs)) % Len(ys)) + 1],
          zs[((k - 1) % Len(zs)) + 1]>>]

\* Grid::generate_neighbor_grid_loc
generate_neighbor_grid_loc(g, loc, grid) ==
    iproduct(RangeBelow(saturating_sub(loc[1], g.reach), loc[1] + g.reach, grid.dim[1]),
             RangeBelow(saturating_sub(loc[2], g.reach), loc[2] + g.reach, grid.dim[2]),
             RangeBelow(saturating_sub(loc[3], g.reach), loc[3] + g.reach, grid.dim[3]))

RECURSIVE flat_map_cells(_, _)
flat_map_cells(grid, points) ==
    IF points = <<>>
    THEN <<>>
    ELSE grid_cell(grid, Head(points)) \o flat_map_cells(grid, Tail(points))

\* force += f; potential += p; neighbors += n
add_interaction(one, rest) ==
    [force |-> VAdd(one.force, rest.force),
     potential |-> one.potential + rest.potential,
     neighbor |-> one.neighbor + rest.neighbor]

RECURSIVE sum_interactions(_, _, _, _)
sum_interactions(target_particle, others, ps, range) ==
    IF others = <<>>
    THEN [force |-> VZero, potential |-> 0, neighbor |-> 0]
    ELSE add_interaction(
             pair_interaction(target_particle.pos, ps[Head(others)].pos, range),
             sum_interactions(target_particle, Tail(others), ps, range))

\* Grid::calculate_force_single, relevant_particles: the ids in the cells
\* within reach, in the order of the cells, without the target
relevant_particles(g, tpid, loc, grid) ==
    SelectSeq(flat_map_cells(grid, generate_neighbor_grid_loc(g, loc, grid)),
              LAMBDA pid : pid # tpid)

\* Grid::calculate_force_single
Grid_calculate_force_single(g, tpid, loc, ps, grid) ==
    sum_interactions(ps[tpid], relevant_particles(g, tpid, loc, grid), ps,
                     g.unit_size * g.reach)

\* Grid::calculate_force, the loop over the particle ids
force_on_each(g, ps, made) ==
    [particle_id \in 1..Len(ps) |->
        Grid_calculate_force_single(g, particle_id, made.locations[particle_id],
                                    ps, made.grid)]

\* Grid::calculate_force
Grid_calculate_force(g, ps) == force_on_each(g, ps, make_grid(g, ps))

\* Boundary::calculate_force_single: DEFLECT_STR * bound_check, the length
\* brought back from units of 0.05
Boundary_calculate_force_single(b, p) ==
    VDivT(VScale(DEFLECT_STR, bound_check(b, p)), 20)

\* Boundary::calculate_force
Boundary_calculate_force(b, positions) ==
    [i \in 1..Len(positions) |-> Boundary_calculate_force_single(b, positions[i])]

\* A mutant of expand: only the x extent is changed.
expand_x_only(b, rate, dt) ==
    [b EXCEPT !.x = Max2(b.x + DivT(rate.num * dt, rate.den * 1000), MIN_LEN)]

\* A mutant of expand: no clamp at MIN_LEN.
expand_unclamped(b, rate, dt) ==
    LET d == DivT(rate.num * dt, rate.den * 1000)
    IN  [x |-> b.x + d, y |-> b.y + d, z |-> b.z + d]

\* Boundary::expand; rate is an exact quotient in length units per second,
\* dt is in milliseconds
expand(b, rate, dt) ==
    LET d == DivT(rate.num * dt, rate.den * 1000)
    IN  [x |-> Max2(b.x + d, MIN_LEN),
         y |-> Max2(b.y + d, MIN_LEN),
         z |-> Max2(b.z + d, MIN_LEN)]

----------------------------------------------------------------------------
(* SimulationPrototype (src/state.rs) *)

\* SimulationPrototype::new: the default settings
SimulationPrototype_new ==
    [bound |-> Boundary_new,
     grid_unit_size |-> 20,
     grid_reach |-> 1,
     dt |-> 1,
     steps_per_frame |-> 20,
     ext_a |-> VZero,
     particles |-> <<>>]

Ok(v) == [ok |-> TRUE, val |-> v]

Err(errors) == [ok |-> FALSE, errors |-> errors]

\* fold(true, |acc, x| acc && x) over contains_position of every particle
AllParticlesInside(p) ==
    \A i \in 1..Len(p.particles) :
        contains_position(p.bound, get_pos(p.particles[i]))

\* A mutant of compile: fail-fast, only the first violated kind is reported.
compile_failfast(p) ==
    IF ~is_valid(p.bound) THEN Err(<<"Bound">>)
    ELSE IF p.grid_unit_size < 0 THEN Err(<<"UnitSize">>)
    ELSE IF p.grid_reach < 1 THEN Err(<<"Reach">>)
    ELSE IF p.dt <= 0 THEN Err(<<"Dt">>)
    ELSE IF p.steps_per_frame <= 0 THEN Err(<<"StepsPerFrame">>)
    ELSE IF ~AllParticlesInside(p) THEN Err(<<"Particle">>)
    ELSE Ok(VDWSimulation_new(p.particles, p.bound,
                              Grid_new(p.grid_unit_size, p.grid_reach),
                              p.dt, p.steps_per_frame, p.ext_a))

\* SimulationPrototype::compile
compile(p) ==
    LET e1 == IF ~is_valid(p.bound) THEN <<"Bound">> ELSE <<>>
        e2 == IF p.grid_unit_size < 0 THEN Append(e1, "UnitSize") ELSE e1
        e3 == IF p.grid_reach < 1 THEN Append(e2, "Reach") ELSE e2
        e4 == IF p.dt <= 0 THEN Append(e3, "Dt") ELSE e3
        e5 == IF p.steps_per_frame <= 0 THEN Append(e4, "StepsPerFrame") ELSE e4
        errors == IF ~AllParticlesInside(p) THEN Append(e5, "Particle") ELSE e5
    IN  IF errors # <<>>
        THEN Err(errors)
        ELSE Ok(VDWSimulation_new(p.particles, p.bound,
                                  Grid_new(p.grid_unit_size, p.grid_reach),
                                  p.dt, p.steps_per_frame, p.ext_a))

NoResult == [none |-> TRUE]

----------------------------------------------------------------------------
(* The values the builders are called with *)

\* -2.0 (the builders take any f32), 1.0 (too short), MIN_LEN itself, and the
\* default 5.0
BoundVals == {-40, 20, MIN_LEN, 100}

UnitSizeVals == {-20, 0, 2, 20}

ReachVals == {0, 1, 2}

\* -1 s, 0, the default 0.001 s, 1 s, 2 s
DtVals == {-1000, 0, 1, 1000, 2000}

StepsPerFrameVals == {0, 1, 3, 20}

\* no particle; one inside; one on a wall and corner; one below 0; one half
\* way between 0 and -2.0; one inside and one above the default extent
ParticleLists ==
    { <<>>,
      <<Particle_new(1, <<10, 10, 10>>, VZero)>>,
      <<Particle_new(1, <<0, 40, 10>>, VZero)>>,
      <<Particle_new(1, <<-1, 10, 10>>, VZero)>>,
      <<Particle_new(1, <<-20, 10, 10>>, VZero)>>,
      <<Particle_new(1, <<10, 10, 10>>, VZero),
        Particle_new(2, <<10, 101, 10>>, VZero)>> }

\* What the other specifications leave alone
PressureIdle == Pressure_new(0, 1)

NoSim == [none |-> TRUE]

NoLoc == [none |-> TRUE]

NoFrame == [none |-> TRUE]

NoCtl == [none |-> TRUE]

EngineIdle ==
    /\ sim = NoSim
    /\ pc = "Idle"
    /\ done = {}
    /\ locals = NoLoc
    /\ start = NoSim
    /\ trace = <<>>
    /\ frame = NoFrame
    /\ ctl = NoCtl

InitCompile ==
    /\ proto = SimulationPrototype_new
    /\ compile_result = NoResult
    /\ pressure = PressureIdle
    /\ pushed = <<>>
    /\ last_push = None
    /\ EngineIdle

\* A builder consumes the prototype and returns the changed one; a result
\* compiled from the earlier prototype is no longer the one in hand.
Build(p) ==
    /\ proto' = p
    /\ compile_result' = NoResult
    /\ UNCHANGED <<pressure_vars, step_vars, frame, ctl>>

set_bound_x == \E val \in BoundVals : Build([proto EXCEPT !.bound.x = val])

set_bound_y == \E val \in BoundVals : Build([proto EXCEPT !.bound.y = val])

set_bound_z == \E val \in BoundVals : Build([proto EXCEPT !.bound.z = val])

set_grid_unit_size ==
    \E unit_size \in UnitSizeVals : Build([proto EXCEPT !.grid_unit_size = unit_size])

set_grid_reach == \E reach \in ReachVals : Build([proto EXCEPT !.grid_reach = reach])

set_dt == \E dt \in DtVals : Build([proto EXCEPT !.dt = dt])

set_steps_per_frame ==
    \E spf \in StepsPerFrameVals : Build([proto EXCEPT !.steps_per_frame = spf])

set_particles == \E ps \in ParticleLists : Build([proto EXCEPT !.particles = ps])

Compile ==
    /\ compile_result' = compile(proto)
    /\ UNCHANGED <<proto, pressure_vars, step_vars, frame, ctl>>

NextCompile ==
    \/ set_bound_x
    \/ set_bound_y
    \/ set_bound_z
    \/ set_grid_unit_size
    \/ set_grid_reach
    \/ set_dt
    \/ set_steps_per_frame
    \/ set_particles
    \/ Compile

SpecCompile == InitCompile /\ [][NextCompile]_vars

\* The construction constraints, one per error kind, stated on the prototype.
Violated(p) ==
    {k \in {"Bound", "UnitSize", "Reach", "Dt", "StepsPerFrame", "Particle"} :
        \/ k = "Bound" /\ (p.bound.x < MIN_LEN \/ p.bound.y < MIN_LEN \/ p.bound.z < MIN_LEN)
        \/ k = "UnitSize" /\ p.grid_unit_size < 0
        \/ k = "Reach" /\ ~(p.grid_reach >= 1)
        \/ k = "Dt" /\ ~(p.dt > 0)
        \/ k = "StepsPerFrame" /\ ~(p.steps_per_frame >= 1)
        \/ k = "Particle" /\ \E i \in 1..Len(p.particles) :
               \E a \in 1..3 :
                   \/ p.particles[i].pos[a] < 0
                   \/ p.particles[i].pos[a] > hi_corner(p.bound)[a]}

\* C1: compile returns Ok exactly when no construction constraint is violated,
\* and otherwise one error whose kind list holds exactly the violated kinds,
\* each once.
C1_CompileAggregates ==
    compile_result # NoResult =>
        /\ compile_result.ok <=> (Violated(proto) = {})
        /\ ~compile_result.ok =>
               /\ {compile_result.errors[i] : i \in 1..Len(compile_result.errors)}
                      = Violated(proto)
               /\ Len(compile_result.errors) = Cardinality(Violated(proto))

\* C1 witness: dt = -1, grid_reach = 0 and boundary.x = 1.0 together were
\* compiled and the one error holds the three kinds.
C1_Witness ==
    /\ compile_result # NoResult
    /\ proto.dt = -1000 /\ proto.grid_reach = 0 /\ proto.bound.x = 20
    /\ proto.bound.y = 100 /\ proto.bound.z = 100
    /\ proto.grid_unit_size = 20 /\ proto.steps_per_frame = 20
    /\ proto.particles = <<>>
    /\ ~compile_result.ok
    /\ compile_result.errors = <<"Bound", "Reach", "Dt">>

\* some coordinate of some particle is below 0 or above the extent of its axis
HasCoordinateOutside(p) ==
    \E i \in 1..Len(p.particles) :
        \E a \in 1..3 :
            \/ p.particles[i].pos[a] < 0
            \/ p.particles[i].pos[a] > hi_corner(p.bound)[a]

ReportsParticle(result) ==
    /\ ~result.ok
    /\ \E k \in 1..Len(result.errors) : result.errors[k] = "Particle"

\* C17: compile reports the Particle kind exactly when some particle has a
\* coordinate below 0 or above the extent of its axis (a position on a wall is
\* inside, an empty list never reports it), and every particle of a compiled
\* engine lies in the closed box and gets no boundary force.
C17_ParticleKindExactlyWhenOutside ==
    compile_result # NoResult =>
        /\ ReportsParticle(compile_result) <=> HasCoordinateOutside(proto)
        /\ proto.particles = <<>> => ~ReportsParticle(compile_result)
        /\ compile_result.ok =>
               \A i \in 1..Len(compile_result.val.particles) :
                   /\ \A a \in 1..3 :
                          /\ compile_result.val.particles[i].pos[a] >= 0
                          /\ compile_result.val.particles[i].pos[a]
                                 <= hi_corner(compile_result.val.bound)[a]
                   /\ Boundary_calculate_force_single(
                          compile_result.val.bound,
                          compile_result.val.particles[i].pos) = VZero

\* C18: an engine compile returns has a grid with unit_size > 0 and
\* reach >= 1, and a prototype with unit_size <= 0 or reach < 1 gets an error
\* and no engine.
C18_GridOfEngineValid ==
    compile_result # NoResult =>
        /\ compile_result.ok =>
               /\ compile_result.val.grid.unit_size > 0
               /\ compile_result.val.grid.reach >= 1
        /\ (proto.grid_unit_size <= 0 \/ proto.grid_reach < 1) => ~compile_result.ok

----------------------------------------------------------------------------
(* The pressure sampler on its own: any capacity, any sequence of pushes *)

\* Largest capacity tried
MaxCap == 3

\* Number of pushes tried
MaxPush == 8

\* The impulse/area values pushed
Samples == {0, 1, 3}

InitPressure ==
    /\ \E capacity \in 0..MaxCap : pressure = Pressure_new(capacity, 1)
    /\ pushed = <<>>
    /\ last_push = None
    /\ proto = SimulationPrototype_new
    /\ compile_result = NoResult
    /\ EngineIdle

push_sample ==
    /\ Len(pushed) < MaxPush
    /\ \E value \in Samples :
           /\ pressure' = Pressure_push_sample(pressure, value)
           /\ last_push' = RingBuffer_push(pressure.data, value).ret
           /\ pushed' = Append(pushed, value)
    /\ UNCHANGED <<compile_vars, step_vars, frame, ctl>>

NextPressure == push_sample

SpecPressure == InitPressure /\ [][NextPressure]_vars

\* The last n values of s, oldest first (all of s when it is shorter).
LastN(s, n) ==
    IF Len(s) <= n THEN s ELSE SubSeq(s, Len(s) - n + 1, Len(s))

\* C3 (as claimed): once at least K values were pushed into a sampler of
\* capacity K >= 1, get_pressure() times the per-sample dt is the mean of
\* the last K pushed values.
C3_AverageOfLastK ==
    LET K == pressure.data.capacity
        avg == Pressure_get_pressure(pressure)
    IN  (K >= 1 /\ Len(pushed) >= K) =>
            /\ ~avg.nan
            /\ avg.num * pressure.dt * K = SumSeq(LastN(pushed, K)) * avg.den

\* C4: the running sum equals the sum of the values the ring buffer holds.
C4_SumCacheIsSumOfWindow ==
    pressure.sum_cache = SumSeq(pressure.data.data)

\* C4 witness: capacity 3, K + 5 pushes made, values were evicted, and the
\* sum is that of a window of different values.
C4_Witness ==
    /\ pressure.data.capacity = 3
    /\ Len(pushed) = 8
    /\ last_push = Some(0)
    /\ pressure.data.data = <<1, 3>>
    /\ pressure.sum_cache = 4

\* C5 (as claimed): the buffer never holds more than its capacity, and what
\* it holds are the most recently pushed values in push order.
C5_BoundedAndMostRecent ==
    /\ RingBuffer_len(pressure.data) <= pressure.data.capacity
    /\ pressure.data.data = LastN(pushed, RingBuffer_len(pressure.data))

\* C28: push returns the overwritten value: None, with every element kept,
\* when the buffer held fewer than capacity elements before the push, and the
\* oldest element when it was at capacity; it never returns the value just
\* pushed, so after push(v) the newest element, peak(), is v.
C28_PushReturnsOverwritten ==
    [][pushed' # pushed =>
          /\ RingBuffer_len(pressure.data) < pressure.data.capacity =>
                 /\ last_push' = None
                 /\ pressure'.data.data = Append(pressure.data.data, pushed'[Len(pushed')])
          /\ (RingBuffer_len(pressure.data) = pressure.data.capacity
                  /\ pressure.data.capacity >= 1) =>
                 last_push' = Some(pressure.data.data[1])
          /\ RingBuffer_peak(pressure'.data) = Some(pushed'[Len(pushed')])]_vars

----------------------------------------------------------------------------
(* Particle and SimulationState (src/state/particle.rs, src/state.rs) *)

\* A mutant of step_pos: the coefficient is ignored, a whole drift each time.
step_pos_whole(particle, dt, coeff) ==
    [particle EXCEPT !.pos = VAdd(@, VDivT(VScale(dt, particle.vel), 1000))]

\* Particle::step_pos: pos += coeff * dt * vel; coeff is the quotient
\* coeff.num / coeff.den, dt in milliseconds
step_pos(particle, dt, coeff) ==
    [particle EXCEPT !.pos =
        VAdd(@, VDivT(VScale(coeff.num * dt, particle.vel), coeff.den * 1000))]

\* Particle::step_vel: vel += coeff * dt * acc; one unit of acceleration is
\* 20 length units per second squared, so dt/1000 * 20 = dt/50
step_vel(particle, acc, dt, coeff) ==
    [particle EXCEPT !.vel =
        VAdd(@, VDivT(VScale(coeff.num * dt, acc), coeff.den * 50))]

\* A mutant of heat: the heated particle comes back with mass 1.
heat_unit_mass(particle, dt, amount) ==
    [particle EXCEPT !.vel = VAdd(@, VDivT(VScale(amount * dt, particle.vel), 10000)),
                     !.mass = 1]

\* Particle::heat: vel += vel * amount * dt; amount in tenths per second
heat(particle, dt, amount) ==
    [particle EXCEPT !.vel =
        VAdd(@, VDivT(VScale(amount * dt, particle.vel), 10000))]

Half == [num |-> 1, den |-> 2]

One == [num |-> 1, den |-> 1]

\* (bnd_f + grd_f) / particle.get_mass() + self.ext_accel
acceleration_of(particle, bnd_f, grd_f, ext_accel) ==
    VAdd(VDivT(VAdd(bnd_f, grd_f), particle.mass), ext_accel)

\* bound_force.iter().map(|bnd_f| bnd_f.length() * self.dt).sum(), in
\* force units times milliseconds
impulse_of(bound_force, dt) ==
    SumSeq([i \in 1..Len(bound_force) |-> length(bound_force[i]) * dt])

\* the four values calculate_particle_acceleration returns, from the two
\* force lists
accelerations_from(state, bound_force, grid_out) ==
    [accelerations |->
        [i \in 1..Len(state.particles) |->
            acceleration_of(state.particles[i], bound_force[i],
                            grid_out[i].force, state.ext_accel)],
     neighbors |-> [i \in 1..Len(state.particles) |-> grid_out[i].neighbor],
     potential_energy |->
        SumSeq([i \in 1..Len(state.particles) |-> grid_out[i].potential]),
     impulse |-> impulse_of(bound_force, state.dt)]

\* SimulationState::calculate_particle_acceleration, run by one thread
calculate_particle_acceleration(state) ==
    accelerations_from(
        state,
        Boundary_calculate_force(
            state.bound, [i \in 1..Len(state.particles) |-> get_pos(state.particles[i])]),
        Grid_calculate_force(state.grid, state.particles))

\* step, first loop: steps += 1 and the first half drift
first_half_drift(state) ==
    [state EXCEPT !.steps = @ + 1,
                  !.particles = [i \in 1..Len(@) |-> step_pos(@[i], state.dt, Half)]]

\* step, from the kick on: kick, heat, the neighbor counts, the second half
\* drift; then the boundary, the potential energy and the impulse
finish_step(s1, out) ==
    [s1 EXCEPT !.particles =
                   [i \in 1..Len(@) |->
                       step_pos([heat(step_vel(@[i], out.accelerations[i], s1.dt, One),
                                      s1.dt, s1.heat_injection_ammount)
                                    EXCEPT !.neighbors = out.neighbors[i]],
                                s1.dt, Half)],
               !.bound = expand(s1.bound, s1.bound_rate, s1.dt),
               !.energy.potential = out.potential_energy,
               !.impulse_accumultor = @ + out.impulse]

\* step, from the force pass on
step_from_forces(s1) == finish_step(s1, calculate_particle_acceleration(s1))

\* SimulationState::step, run by one thread
step(state) == step_from_forces(first_half_drift(state))

\* SimulationState::recalculate_kinetic_energy: 0.5 * m * |v|^2 with v in
\* length units per second is m * |v|^2 / 800; target_temp in whole units,
\* inject_rate in tenths
recalculate_kinetic_energy(state) ==
    LET n == Len(state.particles)
        kinetic == SumSeq([i \in 1..n |->
                       DivT(state.particles[i].mass
                                * length_squared(state.particles[i].vel), 800)])
        current_temp == DivT(kinetic, n)
    IN  [state EXCEPT !.energy.kinetic = kinetic,
                      !.heat_injection_ammount =
                          (state.target_temp - current_temp) * state.inject_rate]

\* A mutant of commit_pressure: the accumulator is not reset.
commit_pressure_keeping_impulse(state) ==
    [state EXCEPT !.pressure =
        Pressure_push_sample(@,
            400 * (state.impulse_accumultor \div get_surface_area(state.bound))
                + DivT(400 * (state.impulse_accumultor % get_surface_area(state.bound)),
                       get_surface_area(state.bound)))]

\* SimulationState::commit_pressure: the sample in thousandths; the impulse is
\* in force units times milliseconds and the area in squares of 0.05
commit_pressure(state) ==
    LET area == get_surface_area(state.bound)
        pressure_value == 400 * (state.impulse_accumultor \div area)
                              + DivT(400 * (state.impulse_accumultor % area), area)
    IN  [state EXCEPT !.pressure = Pressure_push_sample(@, pressure_value),
                      !.impulse_accumultor = 0]

\* A mutant of record_history: the impulse gathered so far is dropped.
record_history_dropping_impulse(state) ==
    [state EXCEPT !.history.energy = RingBuffer_push(@, state.energy).rb,
                  !.history.pressure =
                      RingBuffer_push(@, Pressure_get_pressure(state.pressure)).rb,
                  !.impulse_accumultor = 0]

\* SimulationState::record_history
record_history(state) ==
    [state EXCEPT !.history.energy = RingBuffer_push(@, state.energy).rb,
                  !.history.pressure =
                      RingBuffer_push(@, Pressure_get_pressure(state.pressure)).rb]

----------------------------------------------------------------------------
(* SpecStep: step() at the grain of its parallel loops.  Every par_iter    *)
(* loop is a set of tasks, one per particle, that the thread pool runs in  *)
(* any order; the loop returns when every task has run (join).  The code   *)
(* between two loops runs on the calling thread.  step() borrows the state *)
(* mutably, so nothing else touches it until step() has returned.          *)

MaxSteps == 2

\* A mutant of join: the loop returns without waiting for its tasks.
join_nowait(finished, n) == TRUE

\* the return of a rayon for_each / collect: every item has been processed
join(finished, n) == finished = 1..n

N == Len(sim.particles)

PhaseOrder == <<"HalfDrift1", "ForcePass", "Kick", "HeatInject", "HalfDrift2">>

NoForce == [force |-> VZero, potential |-> 0, neighbor |-> 0]

LocalsNew(n) ==
    [particle_pos      |-> [i \in 1..n |-> VZero],
     bound_force       |-> [i \in 1..n |-> VZero],
     grid_locations    |-> [i \in 1..n |-> VZero],
     particle_locations |-> [i \in 1..n |-> VZero],
     grid              |-> [dim |-> VZero, cells |-> <<>>],
     filled            |-> 0,
     grid_out          |-> [i \in 1..n |-> NoForce],
     accelerations     |-> [i \in 1..n |-> VZero],
     pot_energy        |-> 0,
     impulse           |-> 0]

\* two particles, one passing the other at a distance of 0.1; range 4
ParticlesA ==
    <<Particle_new(1, <<50, 50, 50>>, <<4000, 0, 0>>),
      Particle_new(1, <<52, 52, 50>>, VZero)>>

\* three particles of two masses, two of them within range 4 of each other
ParticlesB ==
    <<Particle_new(1, <<10, 10, 10>>, <<1000, 1000, 0>>),
      Particle_new(2, <<12, 13, 10>>, VZero),
      Particle_new(1, <<45, 10, 10>>, <<-1000, 0, 0>>)>>

\* one particle at rest
ParticlesC == <<Particle_new(1, <<30, 30, 30>>, VZero)>>

WithGrid(p, unit_size, reach) ==
    [p EXCEPT !.grid_unit_size = unit_size, !.grid_reach = reach]

\* The prototypes the engine of SpecStep is compiled from: dt of 0.001, 0.002
\* and 1 in turn.
StepPrototypes ==
    { [WithGrid(SimulationPrototype_new, 2, 2)
          EXCEPT !.particles = ParticlesA, !.dt = 1, !.steps_per_frame = 1],
      [WithGrid(SimulationPrototype_new, 4, 1)
          EXCEPT !.particles = ParticlesB, !.dt = 2, !.steps_per_frame = 1,
                 !.ext_a = <<0, -100, 0>>],
      [SimulationPrototype_new
          EXCEPT !.particles = ParticlesC, !.dt = 1000, !.steps_per_frame = 1] }

\* -10000.0, 0 and 50.0 length units per second
BoundRateVals == {Rat(-200000, 1), Rat(0, 1), Rat(1000, 1)}

\* 0 and 0.1
InjectRateVals == {0, 1}

InitStep ==
    /\ proto \in StepPrototypes
    /\ compile_result = compile(proto)
    /\ compile_result.ok
    /\ sim = compile_result.val
    /\ pc = "Idle"
    /\ done = {}
    /\ locals = NoLoc
    /\ start = sim
    /\ trace = <<>>
    /\ frame = NoFrame
    /\ ctl = NoCtl
    /\ pressure = PressureIdle
    /\ pushed = <<>>
    /\ last_push = None

Rest == <<compile_vars, pressure_vars, frame, ctl>>

\* pub bound_rate: written between steps by whoever holds the state
write_bound_rate ==
    /\ pc = "Idle"
    /\ \E rate \in BoundRateVals : sim' = [sim EXCEPT !.bound_rate = rate]
    /\ UNCHANGED <<pc, done, locals, start, trace, Rest>>

write_inject_rate ==
    /\ pc = "Idle"
    /\ \E r \in InjectRateVals : sim' = [sim EXCEPT !.inject_rate = r]
    /\ UNCHANGED <<pc, done, locals, start, trace, Rest>>

RecalculateKineticEnergy ==
    /\ pc = "Idle"
    /\ sim' = recalculate_kinetic_energy(sim)
    /\ UNCHANGED <<pc, done, locals, start, trace, Rest>>

\* self.steps += 1; the first loop is handed to the pool
step_begin ==
    /\ pc = "Idle"
    /\ sim.steps < MaxSteps
    /\ start' = sim
    /\ sim' = [sim EXCEPT !.steps = @ + 1]
    /\ locals' = LocalsNew(N)
    /\ pc' = "HalfDrift1"
    /\ trace' = <<"HalfDrift1">>
    /\ done' = {}
    /\ UNCHANGED Rest

\* one task of a loop over the particles that changes particle i
ParticleTask(phase, i, particle) ==
    /\ pc = phase
    /\ i \notin done
    /\ sim' = [sim EXCEPT !.particles[i] = particle]
    /\ done' = done \cup {i}
    /\ UNCHANGED <<pc, locals, start, trace, Rest>>

\* one task of a loop that fills item i of a collected vector
CollectTask(phase, i, new_locals) ==
    /\ pc = phase
    /\ i \notin done
    /\ locals' = new_locals
    /\ done' = done \cup {i}
    /\ UNCHANGED <<pc, sim, start, trace, Rest>>

\* the calling thread goes on after the loop of this phase has returned
Proceed(phase, next, new_sim, new_locals, new_trace) ==
    /\ pc = phase
    /\ join(done, N)
    /\ pc' = next
    /\ done' = {}
    /\ sim' = new_sim
    /\ locals' = new_locals
    /\ trace' = new_trace
    /\ UNCHANGED <<start, Rest>>

half_drift_1 ==
    \E i \in 1..N :
        ParticleTask("HalfDrift1", i, step_pos(sim.particles[i], sim.dt, Half))

collect_positions ==
    Proceed("HalfDrift1", "BoundForce", sim,
            [locals EXCEPT !.particle_pos = [i \in 1..N |-> get_pos(sim.particles[i])]],
            Append(trace, "ForcePass"))

bound_force_task ==
    \E i \in 1..N :
        CollectTask("BoundForce", i,
            [locals EXCEPT !.bound_force[i] =
                Boundary_calculate_force_single(sim.bound, locals.particle_pos[i])])

enter_make_grid == Proceed("BoundForce", "FindLoc", sim, locals, trace)

find_location_task ==
    \E i \in 1..N :
        CollectTask("FindLoc", i,
            [locals EXCEPT !.grid_locations[i] =
                find_grid_location(sim.grid, sim.particles[i].pos)])

\* the folds for the smallest and largest index, the re-basing and the
\* allocation of the array
grid_alloc ==
    LET locations == translate_locations(locals.grid_locations)
    IN  Proceed("FindLoc", "GridFill", sim,
                [locals EXCEPT !.particle_locations = locations,
                               !.grid = grid_from_elem(locations),
                               !.filled = 0],
                trace)

\* grid_locations.iter().enumerate().for_each(.. push(i)): one push, in order
grid_insert ==
    /\ pc = "GridFill"
    /\ locals.filled < N
    /\ locals' = [locals EXCEPT
                     !.grid = grid_push(@, locals.particle_locations[locals.filled + 1],
                                        locals.filled + 1),
                     !.filled = @ + 1]
    /\ UNCHANGED <<pc, sim, done, start, trace, Rest>>

\* make_grid returns; the loop over particle_locations is handed to the pool
grid_return ==
    /\ pc = "GridFill"
    /\ locals.filled = N
    /\ pc' = "GridForce"
    /\ UNCHANGED <<sim, done, locals, start, trace, Rest>>

grid_force_task ==
    \E i \in 1..N :
        CollectTask("GridForce", i,
            [locals EXCEPT !.grid_out[i] =
                Grid_calculate_force_single(sim.grid, i, locals.particle_locations[i],
                                            sim.particles, locals.grid)])

grid_force_return == Proceed("GridForce", "Accel", sim, locals, trace)

accel_task ==
    \E i \in 1..N :
        CollectTask("Accel", i,
            [locals EXCEPT !.accelerations[i] =
                acceleration_of(sim.particles[i], locals.bound_force[i],
                                locals.grid_out[i].force, sim.ext_accel)])

\* the two sums; calculate_particle_acceleration returns; the kick loop starts
reduce_sums ==
    Proceed("Accel", "Kick", sim,
            [locals EXCEPT
                !.pot_energy = SumSeq([i \in 1..N |-> locals.grid_out[i].potential]),
                !.impulse = impulse_of(locals.bound_force, sim.dt)],
            Append(trace, "Kick"))

kick_task ==
    \E i \in 1..N :
        ParticleTask("Kick", i,
            step_vel(sim.particles[i], locals.accelerations[i], sim.dt, One))

enter_heat == Proceed("Kick", "HeatInject", sim, locals, Append(trace, "HeatInject"))

heat_task ==
    \E i \in 1..N :
        ParticleTask("HeatInject", i,
            heat(sim.particles[i], sim.dt, sim.heat_injection_ammount))

enter_save_neighbors == Proceed("HeatInject", "SaveNeighbors", sim, locals, trace)

save_neighbors_task ==
    \E i \in 1..N :
        ParticleTask("SaveNeighbors", i,
            [sim.particles[i] EXCEPT !.neighbors = locals.grid_out[i].neighbor])

enter_half_drift_2 ==
    Proceed("SaveNeighbors", "HalfDrift2", sim, locals, Append(trace, "HalfDrift2"))

half_drift_2 ==
    \E i \in 1..N :
        ParticleTask("HalfDrift2", i, step_pos(sim.particles[i], sim.dt, Half))

\* the boundary is adjusted, the potential energy recorded, the impulse
\* accumulated; step() returns
step_end ==
    Proceed("HalfDrift2", "Idle",
            [sim EXCEPT !.bound = expand(sim.bound, sim.bound_rate, sim.dt),
                        !.energy.potential = locals.pot_energy,
                        !.impulse_accumultor = @ + locals.impulse],
            NoLoc, trace)

NextStep ==
    \/ write_bound_rate
    \/ write_inject_rate
    \/ RecalculateKineticEnergy
    \/ step_begin
    \/ half_drift_1
    \/ collect_positions
    \/ bound_force_task
    \/ enter_make_grid
    \/ find_location_task
    \/ grid_alloc
    \/ grid_insert
    \/ grid_return
    \/ grid_force_task
    \/ grid_force_return
    \/ accel_task
    \/ reduce_sums
    \/ kick_task
    \/ enter_heat
    \/ heat_task
    \/ enter_save_neighbors
    \/ save_neighbors_task
    \/ enter_half_drift_2
    \/ half_drift_2
    \/ step_end

SpecStep == InitStep /\ [][NextStep]_vars

\* C2: in every state reached from a compiled engine by steps, whatever
\* bound_rate is written between them and whatever dt is, each extent of the
\* boundary is at least MIN_LEN and the lower corner is the origin.
C2_BoundaryAtLeastMinLen ==
    /\ sim.bound.x >= MIN_LEN
    /\ sim.bound.y >= MIN_LEN
    /\ sim.bound.z >= MIN_LEN
    /\ lo_corner(sim.bound) = <<0, 0, 0>>

\* C2 witness: a step has returned whose rate * dt alone would have taken the
\* extent below zero, and the extent is MIN_LEN.
C2_Witness ==
    /\ pc = "Idle"
    /\ trace # <<>>
    /\ start.bound.x + DivT(start.bound_rate.num * start.dt,
                            start.bound_rate.den * 1000) < 0
    /\ sim.bound.x = MIN_LEN

\* the state after the first half drift of the step that started in st
Snapshot(st) ==
    [st EXCEPT !.steps = @ + 1,
               !.particles = [i \in 1..Len(st.particles) |->
                   [@[i] EXCEPT !.pos =
                       VAdd(@, VDivT(VScale(st.dt, st.particles[i].vel), 2000))]]]

IsPrefix(a, b) == Len(a) <= Len(b) /\ a = SubSeq(b, 1, Len(a))

PhaseOf(p) ==
    CASE p = "HalfDrift1" -> "HalfDrift1"
      [] p \in {"BoundForce", "FindLoc", "GridFill", "GridForce", "Accel"} -> "ForcePass"
      [] p = "Kick" -> "Kick"
      [] p \in {"HeatInject", "SaveNeighbors"} -> "HeatInject"
      [] p = "HalfDrift2" -> "HalfDrift2"

\* v0 + a * dt for every particle of the step that started in st, with a
\* computed at the positions after the first half drift
KickedVel(st) ==
    LET out == calculate_particle_acceleration(Snapshot(st))
    IN  [i \in 1..Len(st.particles) |->
            VAdd(st.particles[i].vel, VDivT(VScale(st.dt, out.accelerations[i]), 50))]

\* the kicked velocities after vel += vel * heat_injection_ammount * dt
HeatedVel(st) ==
    LET vk == KickedVel(st)
    IN  [i \in 1..Len(st.particles) |->
            VAdd(vk[i], VDivT(VScale(st.heat_injection_ammount * st.dt, vk[i]), 10000))]

StepReturns == pc = "HalfDrift2" /\ pc' = "Idle"

\* C9: a step enters HalfDrift1, the force pass, Kick, HeatInject and
\* HalfDrift2 in this order, once each; when it returns every particle has
\* the velocity v0 + a*dt scaled by the heat term, with a computed at the
\* position after the first half drift, and the position after two half
\* drifts, the second with the new velocity; the counter is one more.
C9_StepOrder ==
    /\ [](/\ IsPrefix(trace, PhaseOrder)
          /\ pc # "Idle" => trace[Len(trace)] = PhaseOf(pc))
    /\ [][StepReturns =>
            /\ trace' = PhaseOrder
            /\ sim'.steps = start.steps + 1
            /\ LET snap == Snapshot(start)
                   vh == HeatedVel(start)
               IN  \A i \in 1..N :
                       /\ sim'.particles[i].vel = vh[i]
                       /\ sim'.particles[i].pos =
                              VAdd(snap.particles[i].pos,
                                   VDivT(VScale(start.dt, vh[i]), 2000))]_vars

\* C9 witness: a step has returned in which a particle was drifted, then
\* kicked by a pair force, then heated, and the second half drift differs from
\* the one the velocity before the heat would have given.
C9_Witness ==
    /\ pc = "Idle"
    /\ trace = PhaseOrder
    /\ sim = step(start)
    /\ start.heat_injection_ammount # 0
    /\ sim.energy.potential # 0
    /\ Snapshot(start).particles[1].pos # start.particles[1].pos
    /\ KickedVel(start)[1] # start.particles[1].vel
    /\ VDivT(VScale(start.dt, KickedVel(start)[1]), 2000)
           # VDivT(VScale(start.dt, HeatedVel(start)[1]), 2000)

C10_DuringStep ==
    LET snap == Snapshot(start)
        forces == Grid_calculate_force(sim.grid, snap.particles)
        out == calculate_particle_acceleration(snap)
    IN  /\ pc \in {"BoundForce", "FindLoc", "GridFill", "GridForce", "Accel"} =>
               \A i \in 1..N :
                   /\ sim.particles[i].pos = snap.particles[i].pos
                   /\ locals.particle_pos[i] = snap.particles[i].pos
        /\ pc = "GridForce" =>
               /\ locals.grid = make_grid(sim.grid, snap.particles).grid
               /\ \A i \in done : locals.grid_out[i] = forces[i]
        /\ pc = "Kick" => locals.accelerations = out.accelerations

\* C10: during the force pass the positions are those after the first half
\* drift, for every particle; the grid the workers query holds every particle;
\* every force a worker has returned is the one computed from that snapshot;
\* the kick starts with every acceleration computed; and the state after the
\* step is the one a single thread computes, whatever the order of the tasks.
C10_OneSnapshot ==
    /\ []C10_DuringStep
    /\ [][StepReturns => sim' = step(start)]_vars

\* C10 witness: in the kick loop the last particle has been kicked before the
\* first, with a force that depends on the drifted position of another one.
C10_Witness ==
    /\ pc = "Kick"
    /\ N = 2
    /\ done = {2}
    /\ locals.grid_out[2].force # <<0, 0, 0>>
    /\ Snapshot(start).particles[1].pos # start.particles[1].pos

----------------------------------------------------------------------------
(* The particle population: step() at the grain of its loops, and the three
   tracker operations between steps *)

MaxCommits == 1

MaxRecords == 1

CommitPressure ==
    /\ pc = "Idle"
    /\ RingBuffer_len(sim.pressure.data) < MaxCommits
    /\ sim' = commit_pressure(sim)
    /\ UNCHANGED <<pc, done, locals, start, trace, Rest>>

RecordHistory ==
    /\ pc = "Idle"
    /\ RingBuffer_len(sim.history.energy) < MaxRecords
    /\ sim' = record_history(sim)
    /\ UNCHANGED <<pc, done, locals, start, trace, Rest>>

NextPopulation ==
    \/ RecalculateKineticEnergy
    \/ CommitPressure
    \/ RecordHistory
    \/ step_begin
    \/ half_drift_1
    \/ collect_positions
    \/ bound_force_task
    \/ enter_make_grid
    \/ find_location_task
    \/ grid_alloc
    \/ grid_insert
    \/ grid_return
    \/ grid_force_task
    \/ grid_force_return
    \/ accel_task
    \/ reduce_sums
    \/ kick_task
    \/ enter_heat
    \/ heat_task
    \/ enter_save_neighbors
    \/ save_neighbors_task
    \/ enter_half_drift_2
    \/ half_drift_2
    \/ step_end

SpecPopulation == InitStep /\ [][NextPopulation]_vars

\* every particle id but i, in order
OthersOf(i, n) == SelectSeq([j \in 1..n |-> j], LAMBDA j : j # i)

\* the pair sums of particle i over every other particle, no grid
AllPairsOn(i) ==
    sum_interactions(sim.particles[i], OthersOf(i, N), sim.particles,
                     sim.grid.unit_size * sim.grid.reach)

\* between the force pass and the second drift the positions stand still
PositionsStand == pc \in {"Kick", "HeatInject", "SaveNeighbors"}

\* C20: the population is fixed. After compile, whatever steps,
\* recalculate_kinetic_energy, commit_pressure and record_history run, the
\* number of particles is the number supplied, every particle keeps its mass,
\* and index i stays with its particle: the acceleration and the neighbor
\* count stored at i are those of the particle at i, and the kick and the
\* saved count change that particle.
C20_PopulationFixed ==
    /\ Len(sim.particles) = Len(proto.particles)
    /\ \A i \in 1..N : sim.particles[i].mass = proto.particles[i].mass
    /\ PositionsStand =>
           \A i \in 1..N :
               /\ locals.accelerations[i] =
                      acceleration_of(sim.particles[i],
                          Boundary_calculate_force_single(sim.bound, sim.particles[i].pos),
                          AllPairsOn(i).force, sim.ext_accel)
               /\ locals.grid_out[i].neighbor = AllPairsOn(i).neighbor
    /\ pc = "Kick" =>
           \A i \in 1..N :
               sim.particles[i].vel =
                   IF i \in done
                   THEN step_vel(start.particles[i], locals.accelerations[i],
                                 sim.dt, One).vel
                   ELSE start.particles[i].vel
    /\ pc = "SaveNeighbors" =>
           \A i \in done : sim.particles[i].neighbors = locals.grid_out[i].neighbor

\* C20 witness: two steps of the three particles of two masses have run, the
\* kinetic energy was recalculated, a pressure sample committed and a history
\* record written; the particle of mass 2 is still the second of three.
C20_Witness ==
    /\ pc = "Idle"
    /\ sim.steps = 2
    /\ sim.energy.kinetic > 0
    /\ RingBuffer_len(sim.pressure.data) = 1
    /\ RingBuffer_len(sim.history.energy) = 1
    /\ Len(sim.particles) = 3
    /\ sim.particles[2].mass = 2
    /\ sim.particles[1].neighbors = 1
    /\ sim.particles[3].neighbors = 0

----------------------------------------------------------------------------
(* Two engines that differ only in their history: sim and ctl are compiled
   from the same prototype and every operation is called on both *)

\* a shorter empty history, and a history that already holds a record
TwinHistories ==
    { History_with_capacity(2),
      [energy   |-> [RingBuffer_with_capacity(3)
                        EXCEPT !.data = <<[kinetic |-> 7, potential |-> -3]>>],
       pressure |-> [RingBuffer_with_capacity(3) EXCEPT !.data = <<Rat(1, 2)>>]] }

InitHistory ==
    /\ proto \in StepPrototypes
    /\ compile_result = compile(proto)
    /\ compile_result.ok
    /\ sim = compile_result.val
    /\ \E h \in TwinHistories : ctl = [compile_result.val EXCEPT !.history = h]
    /\ pc = "Idle"
    /\ done = {}
    /\ locals = NoLoc
    /\ start = sim
    /\ trace = <<>>
    /\ frame = NoFrame
    /\ pressure = PressureIdle
    /\ pushed = <<>>
    /\ last_push = None

HistoryRest == <<compile_vars, pressure_vars, pc, done, locals, start, trace, frame>>

\* the rate is chosen before the run starts
both_write_bound_rate ==
    /\ sim.steps = 0
    /\ \E rate \in BoundRateVals :
           /\ sim' = [sim EXCEPT !.bound_rate = rate]
           /\ ctl' = [ctl EXCEPT !.bound_rate = rate]
    /\ UNCHANGED HistoryRest

both_step ==
    /\ sim.steps < MaxSteps
    /\ sim' = step(sim)
    /\ ctl' = step(ctl)
    /\ UNCHANGED HistoryRest

both_recalculate_kinetic_energy ==
    /\ sim' = recalculate_kinetic_energy(sim)
    /\ ctl' = recalculate_kinetic_energy(ctl)
    /\ UNCHANGED HistoryRest

both_commit_pressure ==
    /\ RingBuffer_len(sim.pressure.data) < MaxCommits
    /\ sim' = commit_pressure(sim)
    /\ ctl' = commit_pressure(ctl)
    /\ UNCHANGED HistoryRest

both_record_history ==
    /\ RingBuffer_len(sim.history.energy) < MaxRecords
    /\ sim' = record_history(sim)
    /\ ctl' = record_history(ctl)
    /\ UNCHANGED HistoryRest

NextHistory ==
    \/ both_write_bound_rate
    \/ both_step
    \/ both_recalculate_kinetic_energy
    \/ both_commit_pressure
    \/ both_record_history

SpecHistory == InitHistory /\ [][NextHistory]_vars

\* an engine state without its history
Apart(state) == [state EXCEPT !.history = History_with_capacity(0)]

\* C21: record_history appends the current energy and the current average
\* pressure to the history and changes nothing else of the engine, and nothing
\* reads the history: two engines that differ only in the contents or the
\* capacity of the history stay equal in everything but the history.
C21_HistoryApart ==
    [][/\ Apart(sim') = Apart(ctl')
       /\ sim'.history # sim.history =>
              /\ Apart(sim') = Apart(sim)
              /\ sim'.history.energy.data = Append(sim.history.energy.data, sim.energy)
              /\ sim'.history.pressure.data =
                     Append(sim.history.pressure.data, Pressure_get_pressure(sim.pressure))
       /\ ctl'.history # ctl.history => Apart(ctl') = Apart(ctl)]_vars

\* C21 witness: after two steps, a committed sample and a record, the two
\* engines have moved their particles, hold different histories and are
\* otherwise equal.
C21_Witness ==
    /\ sim.steps = 2
    /\ sim.particles # compile_result.val.particles
    /\ RingBuffer_len(sim.pressure.data) = 1
    /\ sim.history.energy.data = <<sim.energy>>
    /\ ctl.history.energy.capacity = 3
    /\ RingBuffer_len(ctl.history.energy) = 2
    /\ Apart(sim) = Apart(ctl)

\* the sum over the particles of |boundary force| * dt at the force pass of
\* the step that starts in state
BoundaryImpulseOfStep(state) ==
    SumSeq([i \in 1..Len(state.particles) |->
        length(Boundary_calculate_force_single(state.bound,
                   step_pos(state.particles[i], state.dt, Half).pos)) * state.dt])

\* v is impulse / area in thousandths, rounded toward zero
IsImpulsePerArea(v, impulse, area) ==
    LET whole == impulse \div area
        rest == impulse % area
    IN  /\ (v - 400 * whole) * area <= 400 * rest
        /\ 400 * rest < (v - 400 * whole + 1) * area

\* C22: the boundary impulse is accumulated and committed once. A step adds
\* the sum over the particles of |boundary force| * dt, which is never
\* negative, to impulse_accumultor; commit_pressure pushes one sample, the
\* accumulator divided by the surface area 2(xy + yz + zx) of the moment, and
\* sets the accumulator to 0; nothing else changes the accumulator or the
\* sampler.
C22_ImpulseCommittedOnce ==
    [][/\ sim'.steps # sim.steps =>
              /\ BoundaryImpulseOfStep(sim) >= 0
              /\ sim'.impulse_accumultor =
                     sim.impulse_accumultor + BoundaryImpulseOfStep(sim)
              /\ sim'.pressure = sim.pressure
       /\ sim'.pressure # sim.pressure =>
              /\ RingBuffer_len(sim'.pressure.data) = RingBuffer_len(sim.pressure.data) + 1
              /\ SubSeq(sim'.pressure.data.data, 1, RingBuffer_len(sim.pressure.data))
                     = sim.pressure.data.data
              /\ IsImpulsePerArea(
                     sim'.pressure.data.data[RingBuffer_len(sim'.pressure.data)],
                     sim.impulse_accumultor,
                     2 * (sim.bound.x * sim.bound.y + sim.bound.y * sim.bound.z
                              + sim.bound.z * sim.bound.x))
              /\ sim'.impulse_accumultor = 0
       /\ (sim'.steps = sim.steps /\ sim'.pressure = sim.pressure) =>
              sim'.impulse_accumultor = sim.impulse_accumultor]_vars

\* C22 witness: the box shrank in the first step, a particle outside it gave
\* impulse in the second, and the sample of it was committed: the sampler
\* holds one positive value and the accumulator is 0 again.
C22_Witness ==
    /\ sim.steps = 2
    /\ sim.bound.x = MIN_LEN
    /\ RingBuffer_len(sim.pressure.data) = 1
    /\ sim.pressure.data.data[1] > 0
    /\ sim.impulse_accumultor = 0

\* raw pair potential minus the raw potential at the cutoff, as the sum of the
\* two halves (each rounded toward zero in units of 0.01)
ShiftedPairPotential(r2, range) ==
    2 * DivT(RawPotential(r2) - RawPotential(range * range), 2)

\* the sum over the unordered pairs of distinct particles within the cutoff
PairPotentialSum(ps, range) ==
    SumSeq([i \in 1..Len(ps) |->
        SumSeq([j \in 1..Len(ps) |->
            IF j > i /\ length_squared(VSub(ps[i].pos, ps[j].pos)) <= range * range
            THEN ShiftedPairPotential(length_squared(VSub(ps[i].pos, ps[j].pos)), range)
            ELSE 0])])

\* C23: the potential energy a step records is the sum, over the unordered
\* pairs of distinct particles within the cutoff at the force pass, of the raw
\* pair potential minus the raw potential at the cutoff, each pair counted
\* once: each of the two particles contributes half of it.
C23_PotentialCountsPairsOnce ==
    [][sim'.steps # sim.steps =>
          sim'.energy.potential =
              PairPotentialSum(first_half_drift(sim).particles,
                               sim.grid.unit_size * sim.grid.reach)]_vars

\* C23 witness: a step of the three particles has recorded a potential that
\* is not 0, the one of the single pair within the cutoff.
C23_Witness ==
    /\ sim.steps = 1
    /\ Len(sim.particles) = 3
    /\ sim.energy.potential # 0
    /\ sim.energy.potential =
           ShiftedPairPotential(
               length_squared(VSub(first_half_drift(compile_result.val).particles[1].pos,
                                   first_half_drift(compile_result.val).particles[2].pos)),
               sim.grid.unit_size * sim.grid.reach)

----------------------------------------------------------------------------
(* SpecFrame: the frame driver advance_simulation                          *)
(* (src/state/sim_systems.rs), the system the plugin registers under the   *)
(* label "simulation".  Its resources are the fields of sim of the same    *)
(* names.  A system with mutable access runs alone, so the sliders write   *)
(* between two frames.                                                     *)

MaxFrames == 2

\* for _i in 0..19
FRAME_LOOP_STEPS == 19

\* let amount = (targ_temp.0 - particle.get_vel().length()) * inject_rate.0:
\* per particle, from its speed after the kick; in tenths
heat_amount(particle, target_temp, inject_rate) ==
    (target_temp - DivT(length(particle.vel), 20)) * inject_rate

\* the heat closure of step of sim_systems.rs
heat_to_target(particle, dt, target_temp, inject_rate) ==
    heat(particle, dt, heat_amount(particle, target_temp, inject_rate))

\* step of sim_systems.rs from the kick on: the particles after the step,
\* what the step returns, and the amounts its heat closure computed
sim_systems_finish(s1, out) ==
    [particles |->
        [i \in 1..Len(s1.particles) |->
            step_pos([heat_to_target(step_vel(s1.particles[i], out.accelerations[i],
                                              s1.dt, One),
                                     s1.dt, s1.target_temp, s1.inject_rate)
                         EXCEPT !.neighbors = out.neighbors[i]],
                     s1.dt, Half)],
     pot_energy |-> out.potential_energy,
     impulse |-> out.impulse,
     amounts |->
        [i \in 1..Len(s1.particles) |->
            heat_amount(step_vel(s1.particles[i], out.accelerations[i], s1.dt, One),
                        s1.target_temp, s1.inject_rate)]]

\* step of sim_systems.rs from the force pass on
sim_systems_from_forces(s1) ==
    sim_systems_finish(s1, calculate_particle_acceleration(s1))

\* step of sim_systems.rs
sim_systems_step(state) ==
    sim_systems_from_forces(
        [state EXCEPT !.particles = [i \in 1..Len(@) |-> step_pos(@[i], state.dt, Half)]])

\* the boundary after a pass: expand unless the rate is 0
expand_unless_zero(state) ==
    IF state.bound_rate.num # 0
    THEN expand(state.bound, state.bound_rate, state.dt)
    ELSE state.bound

\* the state after a pass, the potential energy its step returned and the
\* heat amounts of the step
after_pass(state, r) ==
    [state |-> [state EXCEPT !.particles = r.particles,
                             !.bound = expand_unless_zero(state)],
     pot_energy |-> r.pot_energy,
     amounts |-> r.amounts]

\* one pass of the body of the loop: step, then expand
step_and_expand(state) == after_pass(state, sim_systems_step(state))

\* kinetic_energy.0 = sum of 0.5 * m * |v|^2
kinetic_energy_of(particles) ==
    SumSeq([i \in 1..Len(particles) |->
               DivT(particles[i].mass * length_squared(particles[i].vel), 800)])

\* potential_energy.0 and kinetic_energy.0 are written after the last step
record_energies(r) ==
    [r.state EXCEPT !.energy.potential = r.pot_energy,
                    !.energy.kinetic = kinetic_energy_of(r.state.particles)]

\* amounts: the heat amounts of the last step of the frame, one per particle;
\* first_amounts: those of its first step
FrameNew == [running |-> FALSE, i |-> 0, steps_run |-> 0, frames |-> 0,
             tracker_updates |-> 0, amounts |-> <<>>, first_amounts |-> <<>>]

\* steps_per_frame of 1, 3 and 20
FramePrototypes ==
    { [WithGrid(SimulationPrototype_new, 2, 2)
          EXCEPT !.particles = ParticlesA, !.dt = 1, !.steps_per_frame = spf] :
        spf \in {1, 3, 20} }

InitFrame ==
    /\ proto \in FramePrototypes
    /\ compile_result = compile(proto)
    /\ compile_result.ok
    /\ sim = compile_result.val
    /\ pc = "Idle"
    /\ done = {}
    /\ locals = NoLoc
    /\ start = sim
    /\ trace = <<>>
    /\ frame = FrameNew
    /\ ctl = NoCtl
    /\ pressure = PressureIdle
    /\ pushed = <<>>
    /\ last_push = None

FrameRest == <<compile_vars, pressure_vars, pc, done, locals, start, trace, ctl>>

\* -0.2, 0 and 0.2 length units per second, the ends of the slider
SliderBoundRateVals == {Rat(-4, 1), Rat(0, 1), Rat(4, 1)}

\* 0 and 3.0, the ends of the slider
SliderTargetTempVals == {0, 3}

\* 0 and 0.5, the ends of the slider
SliderInjectRateVals == {0, 5}

BetweenFrames == pc = "Idle" /\ ~frame.running

\* param_sliders: the slider "Boundary"
slider_bound_rate ==
    /\ BetweenFrames
    /\ \E rate \in SliderBoundRateVals : sim' = [sim EXCEPT !.bound_rate = rate]
    /\ UNCHANGED <<frame, FrameRest>>

\* param_sliders: the slider "Target Temperature"
slider_target_temp ==
    /\ BetweenFrames
    /\ \E t \in SliderTargetTempVals : sim' = [sim EXCEPT !.target_temp = t]
    /\ UNCHANGED <<frame, FrameRest>>

\* param_sliders: the slider "Injection Rate"
slider_inject_rate ==
    /\ BetweenFrames
    /\ \E r \in SliderInjectRateVals : sim' = [sim EXCEPT !.inject_rate = r]
    /\ UNCHANGED <<frame, FrameRest>>

\* the system is called: the loop starts at 0
advance_begin ==
    /\ BetweenFrames
    /\ frame.frames < MaxFrames
    /\ frame' = [frame EXCEPT !.running = TRUE, !.i = 0, !.steps_run = 0,
                              !.amounts = <<>>, !.first_amounts = <<>>]
    /\ UNCHANGED <<sim, FrameRest>>

\* the heat amounts of the pass r are noted
NoteAmounts(f, r) ==
    [f EXCEPT !.steps_run = @ + 1,
              !.amounts = r.amounts,
              !.first_amounts = IF f.steps_run = 0 THEN r.amounts ELSE @]

\* the pass r of the loop is done
LoopPass(r) ==
    /\ sim' = r.state
    /\ frame' = [NoteAmounts(frame, r) EXCEPT !.i = @ + 1]

\* one pass of for _i in 0..19
advance_loop_step ==
    /\ frame.running
    /\ frame.i < FRAME_LOOP_STEPS
    /\ LoopPass(step_and_expand(sim))
    /\ UNCHANGED FrameRest

\* the last pass r is done and the energies are recorded
FinalPass(r) ==
    /\ sim' = record_energies(r)
    /\ frame' = [NoteAmounts(frame, r) EXCEPT !.running = FALSE, !.frames = @ + 1,
                                              !.tracker_updates = @ + 1]

\* the step after the loop, whose return values are recorded, and the
\* kinetic energy; the system returns
advance_final_step ==
    /\ frame.running
    /\ frame.i = FRAME_LOOP_STEPS
    /\ FinalPass(step_and_expand(sim))
    /\ UNCHANGED FrameRest

NextFrame ==
    \/ slider_bound_rate
    \/ slider_target_temp
    \/ slider_inject_rate
    \/ advance_begin
    \/ advance_loop_step
    \/ advance_final_step

SpecFrame == InitFrame /\ [][NextFrame]_vars

\* C8: when a frame has ended the driver has run exactly steps_per_frame
\* steps in it, and the tracker state (the recorded energies) has been updated
\* once per frame, never while the steps of a frame are still running.
C8_StepsPerFrame ==
    /\ frame.tracker_updates = frame.frames
    /\ (~frame.running /\ frame.frames >= 1) => frame.steps_run = sim.steps_per_frame

\* C16: all the steps of one frame apply the same heat amount to every
\* particle: the amounts of a step are equal for all particles, and equal to
\* those of the first step of the frame.
C16_OneAmountPerFrame ==
    frame.steps_run >= 1 =>
        /\ \A i, j \in 1..Len(frame.amounts) : frame.amounts[i] = frame.amounts[j]
        /\ frame.amounts = frame.first_amounts

----------------------------------------------------------------------------
(* The control knobs target_temp and inject_rate: the sliders and the public
   fields of SimulationState *)

\* -1.0 and 1.0
HostTargetTempVals == {-1, 1}

\* -0.1 and 0.2
HostInjectRateVals == {-1, 2}

\* pub target_temp: f32, assigned by a system that holds the state
assign_target_temp ==
    /\ BetweenFrames
    /\ \E t \in HostTargetTempVals : sim' = [sim EXCEPT !.target_temp = t]
    /\ UNCHANGED <<frame, FrameRest>>

\* pub inject_rate: f32, assigned by a system that holds the state
assign_inject_rate ==
    /\ BetweenFrames
    /\ \E r \in HostInjectRateVals : sim' = [sim EXCEPT !.inject_rate = r]
    /\ UNCHANGED <<frame, FrameRest>>

NextKnobs ==
    \/ slider_target_temp
    \/ slider_inject_rate
    \/ assign_target_temp
    \/ assign_inject_rate
    \/ advance_begin
    \/ advance_loop_step
    \/ advance_final_step

SpecKnobs == InitFrame /\ [][NextKnobs]_vars

\* C19: in every state of a compiled engine, after any frames and any writes
\* of the knobs by the sliders or the host, target_temp >= 0 and
\* inject_rate >= 0: a negative value is never accepted.
C19_KnobsNeverNegative ==
    /\ sim.target_temp >= 0
    /\ sim.inject_rate >= 0

----------------------------------------------------------------------------
(* SpecCtl: the frame update with the pressure controller.  The update     *)
(* runs steps_per_frame steps, recomputes the kinetic energy, commits the  *)
(* pressure sample, records the history and then lets the controller set   *)
(* bound_rate.  The widgets of param_sliders write between two updates.    *)

MaxCtlFrames == 3

\* the number of frames the slope looks back
LOOKBACK_WINDOW == 2

\* the box size the clamp is taken from
box_size(b) == b.x

\* the average pressure recorded LOOKBACK_WINDOW frames before the last one,
\* the oldest recorded one when the history is shorter
pressure_at_lookback(state) ==
    LET h == state.history.pressure.data
    IN  IF Len(h) > LOOKBACK_WINDOW THEN h[Len(h) - LOOKBACK_WINDOW] ELSE h[1]

\* A mutant of the controller: the edge flag is never stored.
pressure_controller_no_edge(state) ==
    LET pinned == state.pressure_pinned
        current_pressure == Pressure_get_pressure(state.pressure)
        delta == RSub(pinned.at_value, current_pressure)
        slope == RSub(current_pressure, pressure_at_lookback(state))
        limit == Rat(box_size(state.bound), 2000)
        rate == RClamp(RSub(slope, delta), RNeg(limit), limit)
    IN  [state EXCEPT
            !.bound_rate = IF pinned.is_pinned THEN RScale(20, rate)
                           ELSE IF pinned.previous_state THEN Rat(0, 1)
                           ELSE @,
            !.pressure_pinned.previous_state = pinned.previous_state \/ pinned.is_pinned]

\* A mutant of the controller: the error enters with the other sign.
pressure_controller_flipped(state) ==
    LET pinned == state.pressure_pinned
        current_pressure == Pressure_get_pressure(state.pressure)
        delta == RSub(pinned.at_value, current_pressure)
        slope == RSub(current_pressure, pressure_at_lookback(state))
        limit == Rat(box_size(state.bound), 2000)
        rate == RClamp(RSub(delta, slope), RNeg(limit), limit)
    IN  [state EXCEPT
            !.bound_rate = IF pinned.is_pinned THEN RScale(20, rate)
                           ELSE IF pinned.previous_state THEN Rat(0, 1)
                           ELSE @,
            !.pressure_pinned.previous_state = pinned.is_pinned]

\* The controller.  Pressures are in the program's units; 0.01 * box_size is
\* box_size / 2000 with the box in units of 0.05; the rate is stored in
\* length units per second, 20 times the program's number.
pressure_controller(state) ==
    LET pinned == state.pressure_pinned
        current_pressure == Pressure_get_pressure(state.pressure)
        delta == RSub(pinned.at_value, current_pressure)
        slope == RSub(current_pressure, pressure_at_lookback(state))
        limit == Rat(box_size(state.bound), 2000)
        rate == RClamp(RSub(slope, delta), RNeg(limit), limit)
    IN  [state EXCEPT
            !.bound_rate = IF pinned.is_pinned THEN RScale(20, rate)
                           ELSE IF pinned.previous_state THEN Rat(0, 1)
                           ELSE @,
            !.pressure_pinned.previous_state = pinned.is_pinned]

RECURSIVE step_times(_, _)
step_times(state, n) == IF n = 0 THEN state ELSE step_times(step(state), n - 1)

\* one frame of the driver
update_frame(state) ==
    pressure_controller(
        record_history(
            commit_pressure(
                recalculate_kinetic_energy(
                    step_times(state, state.steps_per_frame)))))

\* one particle at rest close to the upper x wall, too heavy to be moved; a
\* frame is one step of 1 s, so the sampler has capacity 5
CtlPrototype ==
    [SimulationPrototype_new
        EXCEPT !.particles = <<Particle_new(100000, <<97, 50, 50>>, VZero)>>,
               !.dt = 1000, !.steps_per_frame = 1]

CtlNew == [branch |-> "none", seen_pinned |-> FALSE, unpinned_frames |-> 0,
           resets |-> 0]

InitCtl ==
    /\ proto = CtlPrototype
    /\ compile_result = compile(proto)
    /\ compile_result.ok
    /\ sim = compile_result.val
    /\ pc = "Idle"
    /\ done = {}
    /\ locals = NoLoc
    /\ start = sim
    /\ trace = <<>>
    /\ frame = FrameNew
    /\ ctl = CtlNew
    /\ pressure = PressureIdle
    /\ pushed = <<>>
    /\ last_push = None

CtlRest == <<compile_vars, pressure_vars, pc, done, locals, start, trace>>

\* 0, the default 0.5, and 5.0
AtValueVals == {Rat(0, 1), Rat(1, 2), Rat(5, 1)}

\* param_sliders: the checkbox "Pin pressure at: "
checkbox_is_pinned ==
    /\ BetweenFrames
    /\ \E b \in BOOLEAN : sim' = [sim EXCEPT !.pressure_pinned.is_pinned = b]
    /\ UNCHANGED <<frame, ctl, CtlRest>>

\* param_sliders: the DragValue of at_value
drag_at_value ==
    /\ BetweenFrames
    /\ \E v \in AtValueVals : sim' = [sim EXCEPT !.pressure_pinned.at_value = v]
    /\ UNCHANGED <<frame, ctl, CtlRest>>

\* ghost: which case of the controller the flags before the update select,
\* and how often the reset case came up since the last pinned update
CtlAfter(c, pinned) ==
    IF pinned.is_pinned
    THEN [branch |-> "pinned", seen_pinned |-> TRUE, unpinned_frames |-> 0,
          resets |-> 0]
    ELSE [c EXCEPT !.branch = IF pinned.previous_state THEN "reset" ELSE "keep",
                   !.unpinned_frames = @ + 1,
                   !.resets = IF pinned.previous_state THEN @ + 1 ELSE @]

frame_update ==
    /\ BetweenFrames
    /\ frame.frames < MaxCtlFrames
    /\ sim' = update_frame(sim)
    /\ frame' = [frame EXCEPT !.frames = @ + 1,
                              !.steps_run = sim.steps_per_frame,
                              !.tracker_updates = @ + 1]
    /\ ctl' = CtlAfter(ctl, sim.pressure_pinned)
    /\ UNCHANGED CtlRest

NextCtl ==
    \/ checkbox_is_pinned
    \/ drag_at_value
    \/ slider_bound_rate
    \/ frame_update

SpecCtl == InitCtl /\ [][NextCtl]_vars

FrameUpdates == frame'.frames = frame.frames + 1

SlopeMinusDelta(state) ==
    LET p == Pressure_get_pressure(state.pressure)
        slope == RSub(p, pressure_at_lookback(state))
        delta == RSub(state.pressure_pinned.at_value, p)
    IN  RSub(slope, delta)

\* the rate of a state within 0.01 * box_size on both sides, and equal to
\* slope - delta clamped to that interval
RateAsPinned(state) ==
    LET limit == Rat(box_size(state.bound), 100)
        want == RScale(20, SlopeMinusDelta(state))
    IN  /\ RLe(RNeg(limit), state.bound_rate)
        /\ RLe(state.bound_rate, limit)
        /\ state.bound_rate =
               IF RLt(want, RNeg(limit)) THEN RNeg(limit)
               ELSE IF RLt(limit, want) THEN limit
               ELSE want
        /\ LET p == Pressure_get_pressure(state.pressure)
           IN  (p = pressure_at_lookback(state) /\ RLt(p, state.pressure_pinned.at_value))
                   => state.bound_rate.num < 0

----------------------------------------------------------------------------
(* The grid force pass on its own: Grid::calculate_force for particle      *)
(* lists and grids drawn from small sets, against an all-pairs scan.       *)

\* the longest particle list
MaxGridParticles == 3

\* positions in units of 0.05; some below 0, some on cell edges
GridPoints ==
    { <<-1, 0, 0>>, <<0, 0, 0>>, <<2, 0, 0>>, <<3, 1, 0>>,
      <<4, 0, 0>>, <<1, 3, 2>>, <<6, 0, 0>> }

\* (unit_size, reach): cutoffs of 2, 4, 4 and 3
GridCases == { <<2, 1>>, <<2, 2>>, <<4, 1>>, <<1, 3>> }

\* lists of particles at pairwise different points
GridParticleLists ==
    UNION { { [i \in 1..n |-> Particle_new(1, f[i], VZero)] :
                f \in { h \in [1..n -> GridPoints] :
                           \A i, j \in 1..n : i # j => h[i] # h[j] } } :
            n \in 0..MaxGridParticles }

GridRest == <<compile_result, pressure_vars, sim, start, trace, frame, ctl>>

InitGrid ==
    /\ \E ps \in GridParticleLists, c \in GridCases :
           proto = [WithGrid(SimulationPrototype_new, c[1], c[2]) EXCEPT !.particles = ps]
    /\ compile_result = NoResult
    /\ pressure = PressureIdle
    /\ pushed = <<>>
    /\ last_push = None
    /\ EngineIdle

\* the grid of the prototype
GridOf(p) == Grid_new(p.grid_unit_size, p.grid_reach)

\* let (grid, particle_locations) = self.make_grid(particles)
grid_pass_make_grid ==
    /\ pc = "Idle"
    /\ pc' = "GridMade"
    /\ locals' = [made |-> make_grid(GridOf(proto), proto.particles),
                  cells |-> [i \in 1..Len(proto.particles) |-> <<>>],
                  evaluated |-> [i \in 1..Len(proto.particles) |-> <<>>],
                  out |-> [i \in 1..Len(proto.particles) |-> NoForce]]
    /\ UNCHANGED <<proto, done, GridRest>>

\* one item of the parallel map: calculate_force_single for one target
grid_pass_force_single ==
    /\ pc = "GridMade"
    /\ \E tpid \in (1..Len(proto.particles)) \ done :
          /\ locals' =
                [locals EXCEPT
                    !.cells[tpid] =
                        generate_neighbor_grid_loc(GridOf(proto), locals.made.locations[tpid],
                                                   locals.made.grid),
                    !.evaluated[tpid] =
                        relevant_particles(GridOf(proto), tpid,
                                           locals.made.locations[tpid], locals.made.grid),
                    !.out[tpid] =
                        Grid_calculate_force_single(GridOf(proto), tpid,
                                                    locals.made.locations[tpid],
                                                    proto.particles, locals.made.grid)]
          /\ done' = done \cup {tpid}
    /\ UNCHANGED <<proto, pc, GridRest>>

NextGrid ==
    \/ grid_pass_make_grid
    \/ grid_pass_force_single

SpecGrid == InitGrid /\ [][NextGrid]_vars

\* the ordered pairs an all-pairs scan finds for one target
BruteForcePairs(ps, tpid, cutoff) ==
    { j \in 1..Len(ps) :
        j # tpid /\ length_squared(VSub(ps[tpid].pos, ps[j].pos)) <= cutoff * cutoff }

\* the evaluated others whose interaction is not cut off
NotCutOff(ps, tpid, others, cutoff) ==
    SelectSeq(others,
              LAMBDA j : ~(length_squared(VSub(ps[tpid].pos, ps[j].pos)) > cutoff * cutoff))

NoRepeat(s) == \A a, b \in 1..Len(s) : a # b => s[a] # s[b]

SeqRange(s) == { s[k] : k \in 1..Len(s) }

\* C11: for every target the grid pass has handled, the others it evaluated
\* without cutting them off are exactly the other particles within the cutoff
\* unit_size * reach that an all-pairs scan finds; none is evaluated twice
\* and the target is never paired with itself.
C11_GridPairsAreBruteForcePairs ==
    pc = "GridMade" =>
        \A tpid \in done :
            LET cutoff == proto.grid_unit_size * proto.grid_reach
                ev == locals.evaluated[tpid]
            IN  /\ SeqRange(NotCutOff(proto.particles, tpid, ev, cutoff))
                       = BruteForcePairs(proto.particles, tpid, cutoff)
                /\ NoRepeat(ev)
                /\ tpid \notin SeqRange(ev)

\* a target with a pair in another cell at exactly the cutoff, a particle the
\* pass looks at and cuts off, and the pass finished for all three
C11_Witness ==
    /\ pc = "GridMade"
    /\ Len(proto.particles) = 3
    /\ done = 1..3
    /\ proto.grid_unit_size = 2 /\ proto.grid_reach = 1
    /\ proto.particles[1].pos = <<0, 0, 0>>
    /\ proto.particles[2].pos = <<2, 0, 0>>
    /\ proto.particles[3].pos = <<3, 1, 0>>
    /\ locals.made.locations[1] # locals.made.locations[2]
    /\ locals.evaluated[1] = <<2, 3>>
    /\ BruteForcePairs(proto.particles, 1, 2) = {2}
    /\ SeqRange(locals.evaluated[2]) = {1, 3}
    /\ BruteForcePairs(proto.particles, 2, 2) = {1, 3}
    /\ BruteForcePairs(proto.particles, 3, 2) = {2}

\* how often id i stands in the cells of the grid
Occurrences(grid, i) ==
    Cardinality({ ck \in UNION { { <<c, k>> : k \in 1..Len(grid.cells[c]) } :
                                    c \in DOMAIN grid.cells } :
                    grid.cells[ck[1]][ck[2]] = i })

\* floor(coordinate / unit_size) of particle i on axis a
FloorCell(ps, unit_size, i, a) ==
    CHOOSE q \in -8..8 :
        q * unit_size <= ps[i].pos[a] /\ ps[i].pos[a] < (q + 1) * unit_size

\* C24: make_grid puts every particle id in exactly one cell, the cell
\* floor(position / unit_size) per axis minus the smallest such value of the
\* axis over all particles; so with one particle or more the smallest occupied
\* index of every axis is 0, every index is inside the dimensions (largest
\* index + 1 per axis), and entry i of the returned locations is the cell
\* that holds i.
C24_EveryParticleInItsCell ==
    pc = "GridMade" =>
        \A i \in 1..Len(proto.particles) :
            /\ Occurrences(locals.made.grid, i) = 1
            /\ \E k \in 1..Len(grid_cell(locals.made.grid, locals.made.locations[i])) :
                   grid_cell(locals.made.grid, locals.made.locations[i])[k] = i
            /\ \A a \in 1..3 :
                   /\ locals.made.locations[i][a] =
                          FloorCell(proto.particles, proto.grid_unit_size, i, a)
                              - MinOf({ FloorCell(proto.particles, proto.grid_unit_size, j, a) :
                                          j \in 1..Len(proto.particles) })
                   /\ locals.made.locations[i][a] >= 0
                   /\ locals.made.locations[i][a] < locals.made.grid.dim[a]
                   /\ \E j \in 1..Len(proto.particles) : locals.made.locations[j][a] = 0
                   /\ \E j \in 1..Len(proto.particles) :
                          locals.made.locations[j][a] + 1 = locals.made.grid.dim[a]

\* C24 witness: the particles at (-0.05, 0, 0), (0.15, 0.05, 0) and
\* (0.1, 0, 0) with unit_size 0.1: the first is in cell 0, the other two
\* share cell 2 of the x axis, in the order of their ids.
C24_Witness ==
    /\ pc = "GridMade"
    /\ proto.grid_unit_size = 2
    /\ Len(proto.particles) = 3
    /\ proto.particles[1].pos = <<-1, 0, 0>>
    /\ proto.particles[2].pos = <<3, 1, 0>>
    /\ proto.particles[3].pos = <<2, 0, 0>>
    /\ locals.made.locations = << <<0, 0, 0>>, <<2, 0, 0>>, <<2, 0, 0>> >>
    /\ locals.made.grid.dim = <<3, 1, 1>>
    /\ grid_cell(locals.made.grid, <<2, 0, 0>>) = <<2, 3>>

\* the cells within reach of loc on every axis and inside the dimensions
ClippedBlock(loc, reach, dim) ==
    { c \in (0..(dim[1] - 1)) \X (0..(dim[2] - 1)) \X (0..(dim[3] - 1)) :
        \A a \in 1..3 : c[a] - loc[a] <= reach /\ loc[a] - c[a] <= reach }

\* C25: generate_neighbor_grid_loc(loc) returns exactly the cells that are
\* within reach of loc on every axis and have 0 <= index < dimension on every
\* axis, each once, loc among them; at the edges of the grid, also where a
\* component of loc is smaller than reach, the block is clipped and does not
\* wrap around.
C25_NeighborCellsClippedBlock ==
    pc = "GridMade" =>
        \A tpid \in done :
            /\ NoRepeat(locals.cells[tpid])
            /\ SeqRange(locals.cells[tpid]) =
                   ClippedBlock(locals.made.locations[tpid], proto.grid_reach,
                                locals.made.grid.dim)
            /\ locals.made.locations[tpid] \in SeqRange(locals.cells[tpid])

\* C25 witness: unit_size 0.1 and reach 2 with particles in the cells 0, 1
\* and 3 of the x axis: the block of the first is clipped at 0 (0 < reach),
\* the block of the last at the upper edge.
C25_Witness ==
    /\ pc = "GridMade"
    /\ proto.grid_unit_size = 2 /\ proto.grid_reach = 2
    /\ done = {1, 2, 3}
    /\ locals.made.locations = << <<0, 0, 0>>, <<1, 0, 0>>, <<3, 0, 0>> >>
    /\ locals.cells[1] = << <<0, 0, 0>>, <<1, 0, 0>>, <<2, 0, 0>> >>
    /\ locals.cells[2] = << <<0, 0, 0>>, <<1, 0, 0>>, <<2, 0, 0>>, <<3, 0, 0>> >>
    /\ locals.cells[3] = << <<1, 0, 0>>, <<2, 0, 0>>, <<3, 0, 0>> >>

\* C30: within one force pass the candidate relation is symmetric: j is among
\* the particles evaluated for target i exactly when i is among those
\* evaluated for target j, also where the block of cells is clipped at an edge
\* of the grid; and the pair forces summed over all particles are zero.
C30_CandidatesSymmetric ==
    pc = "GridMade" =>
        /\ \A i, j \in done :
               j \in SeqRange(locals.evaluated[i]) <=> i \in SeqRange(locals.evaluated[j])
        /\ done = 1..Len(proto.particles) =>
               \A a \in 1..3 :
                   SumSeq([i \in 1..Len(proto.particles) |-> locals.out[i].force[a]]) = 0

\* C30 witness: unit_size 0.1, reach 2, particles in the cells 0, 1 and 3 of
\* the x axis: the first and the last do not evaluate each other, the second
\* is evaluated by both and evaluates both, and the forces are not zero.
C30_Witness ==
    /\ pc = "GridMade"
    /\ proto.grid_unit_size = 2 /\ proto.grid_reach = 2
    /\ done = {1, 2, 3}
    /\ locals.made.locations = << <<0, 0, 0>>, <<1, 0, 0>>, <<3, 0, 0>> >>
    /\ locals.evaluated = << <<2>>, <<1, 3>>, <<2>> >>
    /\ locals.out[1].force # VZero
    /\ locals.out[2].force # VZero

----------------------------------------------------------------------------
(* The pair laws on their own.  The default law is vdw_interaction above.  *)
(* The two other laws of the repository are the multi-site charge law      *)
(* (src/state/physics.rs) and the cuboid law                               *)
(* (src/state/physics/cuboid_repulsion.rs).  Poses are translations here:  *)
(* every rotation is the identity.                                         *)

RAdd(a, b) ==
    LET l == (a.den \div GCD(a.den, b.den)) * b.den
    IN  Rat(a.num * (l \div a.den) + b.num * (l \div b.den), l)

RMul(a, b) == Rat(a.num * b.num, a.den * b.den)

RECURSIVE RPow(_, _)
RPow(a, k) == IF k = 0 THEN Rat(1, 1) ELSE RMul(a, RPow(a, k - 1))

RZero == Rat(0, 1)

RVZero == <<RZero, RZero, RZero>>

RVAdd(a, b) == <<RAdd(a[1], b[1]), RAdd(a[2], b[2]), RAdd(a[3], b[3])>>

\* Vec3::cross of a whole vector with a vector of quotients
cross(a, f) ==
    <<RSub(RScale(a[2], f[3]), RScale(a[3], f[2])),
      RSub(RScale(a[3], f[1]), RScale(a[1], f[3])),
      RSub(RScale(a[1], f[2]), RScale(a[2], f[1]))>>

\* Inside the charge law lengths are counted in halves of the length unit,
\* so that 0.5 * R0 is the whole number 3 and R0 is 6.
charge_position == << <<0, R0, 0>>, <<0, -R0, 0>> >>

charge_charge == <<-1, 1>>

\* pos.process_relative_position(charge_pos) for the identity rotation: the
\* translation (doubled, to halves of the unit) plus the relative position
process_relative_position(translation, charge_pos) ==
    VAdd(VScale(2, translation), charge_pos)

\* sign * 40 / range_unit4 * R0 / 4 + 40 * 0.1 / range_unit12 * R0 / 12 with
\* inv2 = 1 / unit^2 and R0 = 0.15: sign * (3/2) * inv2^2 + (1/20) * inv2^6
charge_raw_potential(inv2, sign) ==
    RAdd(RMul(Rat(3 * sign, 2), RPow(inv2, 2)), RMul(Rat(1, 20), RPow(inv2, 6)))

\* charge_interaction from r on: inv2 = 1 / r_unit2 = (2 * R0)^2 / |r|^2 and
\* inv2_range = 1 / range_unit^2 = R0^2 / range^2; the force is
\* (sign * 40 / r_unit6 + 40 * 0.1 / r_unit14) * r_unit
charge_at(r, inv2, inv2_range, sign) ==
    [force |->
        [k \in 1..3 |->
            RMul(RAdd(RScale(40 * sign, RPow(inv2, 3)), RScale(4, RPow(inv2, 7))),
                 Rat(r[k], 2 * R0))],
     potential |->
        RMul(Rat(1, 2),
             RSub(charge_raw_potential(inv2, sign),
                  charge_raw_potential(inv2_range, sign)))]

\* charge_interaction with r = pos_targ - pos_other (in halves of the unit)
charge_of_separation(r, range, sign) ==
    IF length_squared(r) > 4 * range * range
    THEN [force |-> RVZero, potential |-> RZero]
    ELSE charge_at(r, Rat(4 * R0 * R0, length_squared(r)),
                   Rat(R0 * R0, range * range), sign)

\* charge_interaction
charge_interaction(pos_targ, pos_other, range, sign) ==
    charge_of_separation(VSub(pos_targ, pos_other), range, sign)

\* one pass of the loop over the pairs of charged regions: the potential,
\* the force and the torque r_from_center x force it adds
charge_term(p_targ, centre_targ, one) ==
    [force |-> one.force,
     torque |-> cross(VSub(p_targ, VScale(2, centre_targ)), one.force),
     potential |-> one.potential]

add_charge_term(a, b) ==
    [force |-> RVAdd(a.force, b.force),
     torque |-> RVAdd(a.torque, b.torque),
     potential |-> RAdd(a.potential, b.potential)]

\* the term of the pair (i, j) of iproduct!(charge_targ, charge_other)
charge_pair(pos_targ, pos_other, range, i, j) ==
    charge_term(process_relative_position(pos_targ, charge_position[i]), pos_targ,
                charge_interaction(process_relative_position(pos_targ, charge_position[i]),
                                   process_relative_position(pos_other, charge_position[j]),
                                   range, charge_charge[i] * charge_charge[j]))

with_neighbor_flag(sum, neighbor) ==
    [force |-> sum.force, torque |-> sum.torque, potential |-> sum.potential,
     neighbor |-> neighbor]

\* particle_interaction of the charge law: the first block is dead code
\* (its condition ends in && false); the four pairs of charged regions are
\* summed; the neighbor flag does not look at the range
charge_particle_interaction(pos_targ, pos_other, range) ==
    with_neighbor_flag(
        add_charge_term(
            add_charge_term(charge_pair(pos_targ, pos_other, range, 1, 1),
                            charge_pair(pos_targ, pos_other, range, 1, 2)),
            add_charge_term(charge_pair(pos_targ, pos_other, range, 2, 1),
                            charge_pair(pos_targ, pos_other, range, 2, 2))),
        determine_neighbor(pos_targ, pos_other))

\* particle_interaction of the cuboid law where r_norm_sqr < range^2 is
\* false: the block that computes force, torque and potential is skipped
cuboid_particle_interaction_beyond(pos_targ, pos_other) ==
    [force |-> VZero, torque |-> VZero, potential |-> 0,
     neighbor |-> determine_neighbor(pos_targ, pos_other)]

\* the default law as a (force, torque, potential, neighbor): no torque
vdw_particle_interaction(pos_targ, pos_other, range) ==
    [pair_interaction(pos_targ, pos_other, range) EXCEPT !.force = @]
        @@ [torque |-> VZero]

Laws == {"vdw", "charge", "cuboid"}

\* the law applied
evaluate(law, pos_targ, pos_other, range) ==
    CASE law = "vdw" -> vdw_particle_interaction(pos_targ, pos_other, range)
      [] law = "charge" -> charge_particle_interaction(pos_targ, pos_other, range)
      [] law = "cuboid" -> cuboid_particle_interaction_beyond(pos_targ, pos_other)

\* positions of the target, in units of 0.05
PairTargets == { <<0, 0, 0>>, <<5, 5, 5>>, <<-3, 2, 7>> }

\* target minus other, never 0: along y, where the charged regions lie, and
\* across; the charged regions of the two particles are never closer than
\* 0.1 (at (0, +-3, 0) two of them would coincide)
PairOffsets ==
    { <<0, 5, 0>>, <<0, -5, 0>>, <<0, 6, 0>>, <<0, 7, 0>>,
      <<2, 0, 0>>, <<3, 0, 0>>, <<-3, 0, 0>>, <<4, 0, 0>>,
      <<0, 0, 2>>, <<0, 0, 7>>, <<3, 0, 3>>, <<2, 0, 2>> }

\* cutoffs of 0.1, 0.15 and 0.2
PairRanges == {2, 3, 4}

NoOut == [none |-> TRUE]

PairRest == <<compile_vars, pressure_vars, sim, done, start, trace, frame, ctl>>

\* the cuboid law is drawn only beyond its cutoff; the charge law only with
\* the two shorter cutoffs
InitPair ==
    /\ \E law \in Laws, t \in PairTargets, d \in PairOffsets, range \in PairRanges :
          /\ law = "cuboid" => ~(length_squared(d) < range * range)
          /\ law = "charge" => range < 4
          /\ locals = [law |-> law, pos_targ |-> t, pos_other |-> VSub(t, d),
                       range |-> range, out |-> NoOut, exchanged_out |-> NoOut]
    /\ proto = SimulationPrototype_new
    /\ compile_result = NoResult
    /\ pressure = PressureIdle
    /\ pushed = <<>>
    /\ last_push = None
    /\ sim = NoSim
    /\ pc = "Idle"
    /\ done = {}
    /\ start = NoSim
    /\ trace = <<>>
    /\ frame = NoFrame
    /\ ctl = NoCtl

\* the law is called for (target, other)
pair_evaluate ==
    /\ pc \in {"Idle", "Exchanged"}
    /\ locals' = [locals EXCEPT !.out = evaluate(locals.law, locals.pos_targ,
                                                 locals.pos_other, locals.range)]
    /\ pc' = IF pc = "Idle" THEN "Evaluated" ELSE "Both"
    /\ UNCHANGED PairRest

\* the two particles change roles, as they do when the grid pass comes to
\* the other one as its target
pair_exchange ==
    /\ pc = "Evaluated"
    /\ locals' = [locals EXCEPT !.pos_targ = locals.pos_other,
                                !.pos_other = locals.pos_targ,
                                !.exchanged_out = locals.out,
                                !.out = NoOut]
    /\ pc' = "Exchanged"
    /\ UNCHANGED PairRest

NextPair ==
    \/ pair_evaluate
    \/ pair_exchange

SpecPair == InitPair /\ [][NextPair]_vars

CentreSeparationSquared == length_squared(VSub(locals.pos_targ, locals.pos_other))

BeyondCutoff == CentreSeparationSquared > locals.range * locals.range

ZeroVector(law) == IF law = "charge" THEN RVZero ELSE VZero

ZeroScalar(law) == IF law = "charge" THEN RZero ELSE 0

\* C12: whenever a law has been applied to two poses whose centres are
\* farther apart than the cutoff, it has returned zero force, zero torque,
\* zero potential and the neighbor flag 0.
C12_ZeroBeyondCutoff ==
    (pc \in {"Evaluated", "Both"} /\ BeyondCutoff) =>
        /\ locals.out.force = ZeroVector(locals.law)
        /\ locals.out.torque = ZeroVector(locals.law)
        /\ locals.out.potential = ZeroScalar(locals.law)
        /\ locals.out.neighbor = 0

\* C13: for the default law, the force on p from q is the exact negation of
\* the force on q from p, and the potential is the same in both orders.
C13_ForceAntisymmetric ==
    (pc = "Both" /\ locals.law = "vdw") =>
        /\ locals.out.force = VScale(-1, locals.exchanged_out.force)
        /\ locals.out.potential = locals.exchanged_out.potential

\* both orders evaluated within the cutoff, with a force that is not zero and
\* not a whole number before rounding
C13_Witness ==
    /\ pc = "Both"
    /\ locals.law = "vdw"
    /\ ~BeyondCutoff
    /\ locals.out.force # VZero
    /\ locals.out.potential # 0
    /\ \E k \in 1..3 :
          LET d == locals.pos_targ[k] - locals.pos_other[k]
          IN  (24 * Pow7(R0) * (2 * Pow6(R0) - Pow3(CentreSeparationSquared)) * d)
                  % Pow7(CentreSeparationSquared) # 0

\* C14: for the default law the potential of two particles exactly
\* cutoff_range apart is 0, and within the cutoff the potential is half of
\* the raw potential at the separation minus the raw potential at the cutoff,
\* a value that depends on the range alone.
C14_PotentialZeroAtCutoff ==
    (pc \in {"Evaluated", "Both"} /\ locals.law = "vdw" /\ ~BeyondCutoff) =>
        /\ locals.out.potential =
               DivT(RawPotential(CentreSeparationSquared)
                        - RawPotential(locals.range * locals.range), 2)
        /\ CentreSeparationSquared = locals.range * locals.range
               => locals.out.potential = 0

\* the default law applied exactly at the cutoff, where the raw potential and
\* the force are not 0
C14_Witness ==
    /\ pc = "Evaluated"
    /\ locals.law = "vdw"
    /\ CentreSeparationSquared = locals.range * locals.range
    /\ RawPotential(CentreSeparationSquared) # 0
    /\ locals.out.force # VZero
    /\ locals.out.potential = 0

----------------------------------------------------------------------------
(* The boundary force on its own: Boundary::calculate_force_single for     *)
(* boxes and positions drawn from small sets.                              *)

\* boxes: the default, an uneven one, and one with a side below MIN_LEN
ForceBounds ==
    { Boundary_new, [x |-> 40, y |-> 60, z |-> 100], [x |-> 20, y |-> 100, z |-> 44] }

\* a coordinate: outside below, on the lower wall, inside, on the upper wall,
\* outside above by 0.05 and by 1.0
ForceCoords(extent) ==
    { -20, -1, 0, extent \div 2, extent, extent + 1, extent + 20 }

BoundRestVars == <<compile_vars, pressure_vars, sim, done, start, trace, frame, ctl>>

InitBound ==
    /\ \E b \in ForceBounds :
          \E px \in ForceCoords(b.x), py \in ForceCoords(b.y), pz \in ForceCoords(b.z) :
              locals = [bound |-> b, p |-> <<px, py, pz>>, force |-> NoOut]
    /\ proto = SimulationPrototype_new
    /\ compile_result = NoResult
    /\ pressure = PressureIdle
    /\ pushed = <<>>
    /\ last_push = None
    /\ sim = NoSim
    /\ pc = "Idle"
    /\ done = {}
    /\ start = NoSim
    /\ trace = <<>>
    /\ frame = NoFrame
    /\ ctl = NoCtl

\* self.calculate_force_single(p.translation)
boundary_force_single ==
    /\ pc = "Idle"
    /\ locals' = [locals EXCEPT
                     !.force = Boundary_calculate_force_single(locals.bound, locals.p)]
    /\ pc' = "Forced"
    /\ UNCHANGED BoundRestVars

\* the particle is somewhere else when the force is asked for again
boundary_move ==
    /\ pc = "Forced"
    /\ \E k \in 1..3 :
          \E c \in ForceCoords(hi_corner(locals.bound)[k]) :
              locals' = [locals EXCEPT !.p[k] = c, !.force = NoOut]
    /\ pc' = "Idle"
    /\ UNCHANGED BoundRestVars

NextBound ==
    \/ boundary_force_single
    \/ boundary_move

SpecBound == InitBound /\ [][NextBound]_vars

\* the force the claim gives for one axis, the length brought back from units
\* of 0.05
WallForce(coord, extent) ==
    IF coord < 0 THEN (DEFLECT_STR * (0 - coord)) \div 20
    ELSE IF coord > extent THEN -((DEFLECT_STR * (coord - extent)) \div 20)
    ELSE 0

\* C15: on each axis the boundary force is 0 for a coordinate in [0, extent],
\* DEFLECT_STR * (0 - coord) > 0 below 0 and DEFLECT_STR * (extent - coord) < 0
\* above the extent; a particle at (extent_x + 1.0, extent_y / 2, extent_z / 2)
\* gets (-DEFLECT_STR, 0, 0).
C15_BoundaryForcePerAxis ==
    pc = "Forced" =>
        /\ \A k \in 1..3 :
              /\ locals.force[k] = WallForce(locals.p[k], hi_corner(locals.bound)[k])
              /\ locals.p[k] < 0 => locals.force[k] > 0
              /\ locals.p[k] > hi_corner(locals.bound)[k] => locals.force[k] < 0
        /\ locals.p = <<locals.bound.x + 20, locals.bound.y \div 2, locals.bound.z \div 2>>
              => locals.force = <<-DEFLECT_STR, 0, 0>>

\* the force at (extent_x + 1.0, extent_y / 2, extent_z / 2) of the uneven box
C15_Witness ==
    /\ pc = "Forced"
    /\ locals.bound = [x |-> 40, y |-> 60, z |-> 100]
    /\ locals.p = <<60, 30, 50>>
    /\ locals.force = <<-DEFLECT_STR, 0, 0>>

----------------------------------------------------------------------------
(* Boundary::expand on its own: called with a rate and a time step, and the
   call of the frame driver that is skipped when the rate is 0 *)

\* the calls made in a row
MaxExpands == 2

\* -20.0, -0.2, 0, 1/60, 0.2 and 2.0 length units per second
ExpandRates ==
    {Rat(-400, 1), Rat(-4, 1), Rat(0, 1), Rat(1, 3), Rat(4, 1), Rat(40, 1)}

\* 0.001 s, 0.25 s and 1 s
ExpandDts == {1, 250, 1000}

InitExpand ==
    /\ proto = SimulationPrototype_new
    /\ compile_result = NoResult
    /\ pressure = PressureIdle
    /\ pushed = <<>>
    /\ last_push = None
    /\ sim = NoSim
    /\ pc = "Idle"
    /\ done = {}
    /\ \E bound \in ForceBounds :
           locals = [bound |-> bound, before |-> bound, unless_zero |-> bound,
                     rate |-> Rat(0, 1), dt |-> 1, calls |-> 0]
    /\ start = NoSim
    /\ trace = <<>>
    /\ frame = NoFrame
    /\ ctl = NoCtl

\* self.bound.expand(self.bound_rate, self.dt), and next to it what the
\* driver that skips the call at rate 0 leaves
expand_call ==
    /\ pc = "Idle"
    /\ locals.calls < MaxExpands
    /\ \E rate \in ExpandRates, dt \in ExpandDts :
           locals' = [bound |-> expand(locals.bound, rate, dt),
                      before |-> locals.bound,
                      unless_zero |-> expand_unless_zero(
                          [bound |-> locals.bound, bound_rate |-> rate, dt |-> dt]),
                      rate |-> rate, dt |-> dt, calls |-> locals.calls + 1]
    /\ pc' = "Expanded"
    /\ UNCHANGED BoundRestVars

\* the call has returned
expand_return ==
    /\ pc = "Expanded"
    /\ pc' = "Idle"
    /\ UNCHANGED <<locals, BoundRestVars>>

NextExpand ==
    \/ expand_call
    \/ expand_return

SpecExpand == InitExpand /\ [][NextExpand]_vars

\* d is rate * dt in units of 0.05, rounded toward zero
IsRateTimesDt(d, rate, dt) ==
    /\ Abs(d) * rate.den * 1000 <= Abs(rate.num) * dt
    /\ Abs(rate.num) * dt < (Abs(d) + 1) * rate.den * 1000
    /\ d * rate.num >= 0

\* C26: expand(rate, dt) sets each of the three extents to
\* max(extent + rate * dt, MIN_LEN) with the same rate * dt on all axes; with
\* rate 0 on a valid boundary it changes nothing, so that skipping the call
\* at rate 0 leaves what the call leaves; with rate < 0 no extent grows and
\* each stops at MIN_LEN.
C26_ExpandPerAxisClamped ==
    pc = "Expanded" =>
        /\ \E d \in -400..400 :
               /\ IsRateTimesDt(d, locals.rate, locals.dt)
               /\ locals.bound.x = Max2(locals.before.x + d, MIN_LEN)
               /\ locals.bound.y = Max2(locals.before.y + d, MIN_LEN)
               /\ locals.bound.z = Max2(locals.before.z + d, MIN_LEN)
        /\ (locals.rate.num = 0 /\ is_valid(locals.before)) =>
               /\ locals.bound = locals.before
               /\ locals.bound = locals.unless_zero
        /\ (locals.rate.num < 0 /\ is_valid(locals.before)) =>
               /\ locals.bound.x <= locals.before.x /\ locals.bound.x >= MIN_LEN
               /\ locals.bound.y <= locals.before.y /\ locals.bound.y >= MIN_LEN
               /\ locals.bound.z <= locals.before.z /\ locals.bound.z >= MIN_LEN

\* C26 witness: the box 2.0 x 3.0 x 5.0 shrunk at -0.2 per second for one
\* second: x stays at MIN_LEN, y and z lose 0.2.
C26_Witness ==
    /\ pc = "Expanded"
    /\ locals.before = [x |-> 40, y |-> 60, z |-> 100]
    /\ locals.rate = Rat(-4, 1) /\ locals.dt = 1000
    /\ locals.bound = [x |-> 40, y |-> 56, z |-> 96]

----------------------------------------------------------------------------
(* The particle cloud (src/state/state_generator.rs): the samples of the
   random generator are choices from small sets *)

\* the largest n
MaxCloud == 3

\* rnorm >= 0.15, in units of 0.05
PRUNE_DISTANCE == 3

\* Boundary::center
center(b) == VDivT(VAdd(hi_corner(b), lo_corner(b)), 2)

\* the inner loop of prune: p1 stays unless a retained particle is closer than
\* 0.15; a retained particle at distance 0 is passed over (continue)
qualifies(p1, ret) ==
    \A k \in 1..Len(ret) :
        \/ length_squared(VSub(get_pos(p1), get_pos(ret[k]))) = 0
        \/ length_squared(VSub(get_pos(p1), get_pos(ret[k])))
               >= PRUNE_DISTANCE * PRUNE_DISTANCE

RECURSIVE prune_from(_, _)
prune_from(particles, ret) ==
    IF particles = <<>>
    THEN ret
    ELSE prune_from(Tail(particles),
                    IF qualifies(Head(particles), ret)
                    THEN Append(ret, Head(particles))
                    ELSE ret)

\* prune
prune(particles) == prune_from(particles, <<>>)

\* pos = (pos * sigma) + bound.center(); pos.min(hi_corner); pos.max(lo_corner)
trimmed_position(bound, scaled_sample) ==
    VMax(VMin(VAdd(scaled_sample, center(bound)), hi_corner(bound)), lo_corner(bound))

\* the particles of the loop of initialize_spherical_cloud, before prune
cloud_particles(bound, scaled_samples, vel) ==
    [i \in 1..Len(scaled_samples) |->
        Particle_new(1, trimmed_position(bound, scaled_samples[i]), vel)]

\* sample * sigma: at the centre, 0.05, 0.11, 0.2 from it, and far outside on
\* both sides
CloudSamples ==
    { <<0, 0, 0>>, <<1, 0, 0>>, <<2, 1, 0>>, <<4, 0, 0>>,
      <<100, 0, 0>>, <<120, 0, 0>>, <<-80, 0, 0>> }

\* sample * temp of the velocities: temp 0, and one other value
CloudVels == { VZero, <<20, 0, -20>> }

\* the default box, a small valid one, one too short and one with the x
\* extent -2.0
CloudBounds ==
    { Boundary_new, [x |-> 40, y |-> 60, z |-> 100], [x |-> 20, y |-> 100, z |-> 44],
      [x |-> -40, y |-> 100, z |-> 100] }

InitCloud ==
    /\ \E b \in CloudBounds : proto = [SimulationPrototype_new EXCEPT !.bound = b]
    /\ compile_result = NoResult
    /\ pressure = PressureIdle
    /\ pushed = <<>>
    /\ last_push = None
    /\ EngineIdle

\* initialize_spherical_cloud(n, sigma, temp); the list handed to prune is
\* kept in locals
initialize_spherical_cloud ==
    /\ pc = "Idle"
    /\ \E n \in 0..MaxCloud :
           \E scaled_samples \in [1..n -> CloudSamples], vel \in CloudVels :
               /\ locals' = [particles |-> cloud_particles(proto.bound, scaled_samples, vel)]
               /\ proto' = [proto EXCEPT !.particles =
                                prune(cloud_particles(proto.bound, scaled_samples, vel))]
    /\ compile_result' = NoResult
    /\ pc' = "Clouded"
    /\ UNCHANGED <<pressure_vars, sim, done, start, trace, frame, ctl>>

\* compile() right after it
cloud_compile ==
    /\ pc = "Clouded"
    /\ compile_result = NoResult
    /\ compile_result' = compile(proto)
    /\ UNCHANGED <<proto, pressure_vars, step_vars, frame, ctl>>

NextCloud ==
    \/ initialize_spherical_cloud
    \/ cloud_compile

SpecCloud == InitCloud /\ [][NextCloud]_vars

RECURSIVE IsSubsequence(_, _)
IsSubsequence(sub, s) ==
    IF sub = <<>> THEN TRUE
    ELSE IF s = <<>> THEN FALSE
    ELSE IF Head(sub) = Head(s) THEN IsSubsequence(Tail(sub), Tail(s))
    ELSE IsSubsequence(sub, Tail(s))

\* C27: in the result of prune no two retained particles are closer than 0.15
\* to each other, two at the same position included; the result is a
\* subsequence of the input in its order and keeps the first particle.
C27_PruneKeepsApart ==
    pc = "Clouded" =>
        /\ \A i, j \in 1..Len(proto.particles) :
               i # j => length_squared(VSub(proto.particles[i].pos, proto.particles[j].pos))
                            >= PRUNE_DISTANCE * PRUNE_DISTANCE
        /\ IsSubsequence(proto.particles, locals.particles)
        /\ locals.particles # <<>> =>
               /\ proto.particles # <<>>
               /\ proto.particles[1] = locals.particles[1]

\* C29: every particle initialize_spherical_cloud produces lies in the closed
\* box of the prototype, so compile right after it does not report the
\* Particle kind, whatever n, sigma and temp are.
C29_CloudInsideBox ==
    pc = "Clouded" =>
        /\ \A i \in 1..Len(proto.particles) :
               \A a \in 1..3 :
                   /\ proto.particles[i].pos[a] >= 0
                   /\ proto.particles[i].pos[a] <= hi_corner(proto.bound)[a]
        /\ compile_result # NoResult => ~ReportsParticle(compile_result)

====
